---------------------------- MODULE Spec2Model ----------------------------
(***************************************************************************)
(* Verification model of the inference_node runtime:                       *)
(*   - BaseResultDestination: the guarded publish (send gate, frame-limit  *)
(*     pause, rate limit, failure circuit breaker) and the toggles that    *)
(*     InferencePipeline.enable_publisher / disable_publisher apply to it;  *)
(*   - ResultPublisher.publish: the fan-out of one payload;                  *)
(*   - PipelineManager: start_pipeline / stop_pipeline and the supervisory  *)
(*     worker _run_pipeline over InferencePipeline instances.               *)
(* Each subsystem has a specification of its own (SpecDest, SpecPub,        *)
(* SpecMgr); the variables of the other subsystems stay at their initial    *)
(* value under it.                                                          *)
(***************************************************************************)
EXTENDS Integers, Sequences, FiniteSets, TLC

(***************************************************************************)
(* Bounds of the model.                                                    *)
(***************************************************************************)
\* pool threads of one ResultPublisher that may run Destination.publish
NumWorkers == 2
\* largest max_frames a destination is configured with
MaxFramesCfg == 2
\* largest rate_limit (in clock ticks) a destination is configured with
MaxRate == 2
\* clock ticks explored after the start of the run
MaxTicks == 3
\* failure_count is explored up to max_failures + ExtraFailures
ExtraFailures == 1
\* success_count_since_failure and frame_count are explored up to this value
MaxCount == 4

\* destinations added to one ResultPublisher
NumDests == 2
\* start_pipeline calls made for the pipeline id
NumStarts == 2
\* polls of the startup wait before it times out (the code's 100)
PollLimit == 1
\* stop_pipeline calls made for the pipeline id
MaxStops == 1
\* start() calls made on one InferencePipeline
NumPipeStarts == 2
\* frames one InferencePipeline processes
MaxLoopFrames == 3
\* exceptions raised inside the processing loops of one InferencePipeline
MaxRaised == 2
\* destinations in one submitted configuration
MaxDestList == 2
\* update_pipeline calls made for the pipeline id
MaxUpdates == 1
\* destinations in a configuration when update_pipeline runs together with
\* start_pipeline
MaxConcDestList == 1
\* publish calls the pipeline loop makes on one ResultPublisher
MaxPublishes == 2
\* max_failures of the destinations of a running pipeline
RunMaxFailures == 2
\* _latency_window_size, scaled down (pipeline.py:44 sets it to 100)
LatencyWindow == 3
\* _fps_window_seconds, scaled down (pipeline.py:40 sets it to 10)
FpsWindow == 2
\* the run loop cleans the timestamps every so many frames, scaled down
\* (pipeline.py:581 cleans every 100 frames)
FpsCleanupEvery == 2
\* readings of time.perf_counter() and frames counted while the FPS window
\* is observed
MaxFpsTicks == 3
MaxFpsFrames == 3
\* inferences measured in one run
MaxInferences == 5
\* get_metrics calls made during one run
MaxMetricsCalls == 2

(***************************************************************************)
(* Program constants.                                                      *)
(***************************************************************************)
\* base_destination.py:35  self.max_failures = 5
DefaultMaxFailures == 5
\* base_destination.py:153  success_count_since_failure >= 3
SuccessesToReset == 3

Workers == 1..NumWorkers
Dests == 1..NumDests
Starts == 1..NumStarts
PCalls == 1..NumPipeStarts
PublishCalls == 1..MaxPublishes
\* str(e) of the exceptions raised inside the processing loop: an exception
\* constructed without arguments has the empty message
Messages == {"", "boom"}

\* An Optional[int]: {} is None, {n} is the value n.
None == {}
Some(n) == {n}
ValueOf(opt) == CHOOSE n \in opt : TRUE

\* time.time() at the first step: far larger than any rate limit, so that the
\* initial last_publish_time = 0 never rate-limits the first send.
StartTime == MaxRate + 1

VARIABLES
    \* ---- BaseResultDestination (base_destination.py:14-39)
    enabled,
    is_configured,
    rate_limit,
    last_publish_time,
    max_frames,
    frame_count,
    frame_limit_reached,
    failure_count,
    max_failures,
    failure_threshold_reached,
    success_count_since_failure,
    \* time.time()
    now,
    \* position of each pool thread inside Destination.publish
    wpc,
    \* how the publish call that returned last did so: "true", or False by one
    \* of the branches "refused_disabled", "refused_paused", "refused_rate",
    \* "failed" ("none" before the first return)
    last_return,
    \* history: length of the current run of consecutive failed sends that
    \* began at an enabled, configured destination with failure_count = 0
    \* (0: no such run is in progress)
    failRun,
    \* history: successful sends in a row since the last recorded failure or
    \* explicit failure reset, counted up to SuccessesToReset
    okRun,
    \* history: recorded failures in a row, with no successful send and no
    \* explicit failure reset between them, counted up to max_failures
    sendFailRun,
    \* history: enable_publisher has cleared a frame-limit pause
    unpaused

destVars == <<enabled, is_configured, rate_limit, last_publish_time, max_frames,
              frame_count, frame_limit_reached, failure_count, max_failures,
              failure_threshold_reached, success_count_since_failure, now,
              wpc, last_return, failRun, okRun, sendFailRun, unpaused>>

VARIABLES
    \* ---- ResultPublisher (publisher.py:16-22) and one publish call
    \* self.destinations: per destination its enabled, is_paused,
    \* include_image_data and include_result_image
    pdests,
    \* position of the caller inside publish: "idle", "loop", "returned"
    ppc,
    \* encoded_image / encoded_result_image is not None
    encoded_image,
    encoded_result_image,
    \* publish calls begun so far; the call in progress or last returned
    publishes,
    \* per publish call the keys "image" / "result_image" present in the one
    \* dest_data dict of that call
    dest_data,
    \* enabled_destinations (the snapshot) and the loop's position in it
    enabled_destinations,
    pidx,
    \* the executor's work queue: tasks <<destination, call>> submitted to
    \* self._executor and not yet picked up by a pool thread, oldest first
    submitted,
    \* the tasks a pool thread is executing (at most max_workers of them)
    running,
    \* per destination the keys of the payload its publish received
    \* ({"nothing"} before that)
    received

pubVars == <<pdests, ppc, publishes, encoded_image, encoded_result_image,
             dest_data, enabled_destinations, pidx, submitted, running,
             received>>

(***************************************************************************)
(* State of the PipelineManager for one pipeline id, of the start_pipeline *)
(* calls made for it, of the _run_pipeline thread each call spawns and of  *)
(* the InferencePipeline instance each such thread creates.  A call, its   *)
(* thread and its instance share one index in Starts.                      *)
(***************************************************************************)
VARIABLES
    \* self.metadata[id]['status']
    status,
    \* self.metadata[id]['inference_enabled']
    inference_enabled,
    \* self.active_pipelines: None when the id is absent, Some(0) for an
    \* entry without 'pipeline_instance', Some(p) for an entry holding p
    active_pipelines,
    \* self.pipeline_threads: None, or Some(s) for the thread of call s
    pipeline_threads,
    \* position of each start_pipeline call
    cpc,
    \* what each start_pipeline call returned, and why
    cret,
    \* startup_status['started'], startup_status['error'] of each call
    startup_started,
    startup_error,
    \* polls each call has slept through
    total_waited,
    \* position of each _run_pipeline thread
    mpc,
    \* InferencePipeline._is_running, ._error_state is not None,
    \* ._stop_requested, and the state of InferencePipeline.thread
    is_running,
    error_state,
    stop_requested,
    pthread,
    \* position of the stop_pipeline call, the instance it stops, and the
    \* number of stop_pipeline calls made
    spc,
    stop_target,
    stops

mgrVars == <<status, inference_enabled, active_pipelines, pipeline_threads,
             cpc, cret, startup_started, startup_error, total_waited, mpc,
             is_running, error_state, stop_requested, pthread,
             spc, stop_target, stops>>

(***************************************************************************)
(* State of one InferencePipeline, of the start() calls made on it, of the *)
(* run thread each such call creates, and of the stop() call.  A start     *)
(* call and the thread it creates share one index in PCalls.               *)
(***************************************************************************)
VARIABLES
    \* the fields of the same names of InferencePipeline; _error_state is
    \* None or Some(message)
    _is_initialized,
    _is_running,
    _error_state,
    _stop_requested,
    _inference_enabled,
    _frame_counter,
    _inference_counter,
    _start_time,
    \* time.perf_counter()
    perf_counter,
    \* _is_folder_source() of the configured frame source
    is_folder_source,
    \* position and outcome of each start() call
    start_pc,
    start_result,
    \* state of the run thread each start() call created
    run_thread,
    \* self.thread: the index of the thread created last, 0 before that
    thread,
    \* position of the stop() call
    stop_pc,
    \* exceptions raised so far inside the processing loop, and whether the
    \* last one reached the except clause of run
    raised,
    caught_at_boundary,
    \* self._frame_lock: 0 when free, else the run thread that holds it
    \* (stop and the readers hold it only for a copy)
    _frame_lock,
    \* self._latest_frame is not None
    _latest_frame,
    \* self._thumbnail_path is set
    _thumbnail_path

frameVars == <<_frame_lock, _latest_frame, _thumbnail_path>>

pipeVars == <<_is_initialized, _is_running, _error_state, _stop_requested,
              _inference_enabled, _frame_counter, _inference_counter,
              _start_time, perf_counter, is_folder_source, start_pc,
              start_result, run_thread, thread, stop_pc, raised,
              caught_at_boundary, frameVars>>

(***************************************************************************)
(* The registry entry of the pipeline id in PipelineManager.metadata, as   *)
(* create_pipeline and update_pipeline read and write it.                  *)
(***************************************************************************)
VARIABLES
    \* self.metadata[id]['destinations']: a sequence of records with the
    \* fields id, type, config and enabled
    destinations,
    \* self.metadata[id]['name']
    name,
    \* self.metadata[id]['modified_date']: 0 while the key is absent, then
    \* the number of the update that wrote it
    modified_date,
    \* calls of uuid.uuid4() made so far
    uuid4_calls,
    \* update_pipeline calls made so far, the config passed to the last one
    \* and what it returned
    update_calls,
    update_config,
    update_result

updVars == <<destinations, name, modified_date, uuid4_calls, update_calls,
             update_config, update_result>>

VARIABLES
    \* ---- the destinations of a running pipeline's publisher and their sends
    \* per destination: enabled, failure_count, success_count_since_failure
    \* and failure_threshold_reached
    dstate,
    \* the tasks handed to the publisher's pool and not yet ended, by
    \* destination, oldest first
    queue,
    \* history: the number of sends (_publish calls) that returned false or
    \* raised
    sends_failed

runVars == <<dstate, queue, sends_failed>>

VARIABLES
    \* ---- the inference-latency window of one run of an InferencePipeline
    \* self._inference_latencies: the buffer, oldest sample first
    _inference_latencies,
    \* position of the run thread: "idle" between inferences, "appended"
    \* between the append (line 597) and the trim (lines 600-601)
    lat_pc,
    \* history: every latency measured in this run, oldest first
    measured,
    \* the "latency_ms" of the last get_metrics call, in tenths of a
    \* millisecond (-1 before the first call), and the number of calls
    latency_ms,
    metrics_calls

latVars == <<_inference_latencies, lat_pc, measured, latency_ms,
             metrics_calls>>

VARIABLES
    \* ---- _record_failure on each pool thread (base_destination.py:124)
    \* the failure_count that "self.failure_count += 1" has loaded and not
    \* yet stored back (None outside the statement)
    failure_count_read,
    \* ---- update_pipeline (pipeline_manager.py:303-375)
    \* position of the update_pipeline call: "idle", or "apply" once it has
    \* passed the check of the active map and not yet written the entry
    update_pc

raceVars == <<failure_count_read, update_pc>>

VARIABLES
    \* ---- the FPS window of InferencePipeline (pipeline.py:39-41)
    \* self._frame_timestamps
    _frame_timestamps,
    \* time.perf_counter()
    fps_clock,
    \* frames the run loop has counted (self._frame_counter)
    fps_frame_counter,
    \* position of the get_metrics call inside _calculate_rolling_fps: "idle",
    \* or "filtered" once the list comprehension has built the new list and
    \* the attribute has not been assigned yet
    metrics_pc,
    \* the cutoff time of that call and the list its comprehension built
    metrics_cutoff,
    metrics_filtered,
    \* get_metrics calls made so far
    fps_metrics_calls

fpsVars == <<_frame_timestamps, fps_clock, fps_frame_counter, metrics_pc,
             metrics_cutoff, metrics_filtered, fps_metrics_calls>>

VARIABLES
    \* ---- the sends of one destination as the rate limit sees them
    \* the time.time() at which each pool thread's publish call passed the
    \* gate (0 before it has passed one)
    pass_time,
    \* the gate-passing times of the publish calls that returned True
    ok_passes

rateVars == <<pass_time, ok_passes>>

vars == <<destVars, pubVars, mgrVars, pipeVars, updVars, runVars, latVars,
          raceVars, fpsVars, rateVars>>
nonDestVars == <<pubVars, mgrVars, pipeVars, updVars, runVars, latVars,
                 raceVars, fpsVars, rateVars>>
nonPubVars == <<destVars, mgrVars, pipeVars, updVars, runVars, latVars,
                raceVars, fpsVars, rateVars>>
nonMgrVars == <<destVars, pubVars, pipeVars, updVars, runVars, latVars,
                raceVars, fpsVars, rateVars>>
nonPipeVars == <<destVars, pubVars, mgrVars, updVars, runVars, latVars,
                 raceVars, fpsVars, rateVars>>
nonUpdVars == <<destVars, pubVars, pipeVars, runVars, latVars, raceVars,
                fpsVars, rateVars>>
nonRunVars == <<destVars, pubVars, mgrVars, updVars, latVars, raceVars,
                fpsVars, rateVars>>
nonLatVars == <<destVars, pubVars, mgrVars, pipeVars, updVars, runVars,
                raceVars, fpsVars, rateVars>>
nonRaceVars == <<destVars, pubVars, mgrVars, pipeVars, updVars, runVars,
                 latVars, fpsVars, rateVars>>
nonFpsVars == <<destVars, pubVars, mgrVars, pipeVars, updVars, runVars,
                latVars, raceVars, rateVars>>
nonRateVars == <<destVars, pubVars, mgrVars, pipeVars, updVars, runVars,
                 latVars, raceVars, fpsVars>>

(***************************************************************************)
(* BaseResultDestination                                                   *)
(***************************************************************************)
\* __init__ followed by configure()/configure_common(): the configuration is
\* the input, every counter starts at its constructor value.
DestInit ==
    /\ enabled = TRUE
    /\ is_configured \in BOOLEAN
    /\ rate_limit \in {None} \cup {Some(r) : r \in 0..MaxRate}
    /\ last_publish_time = 0
    /\ max_frames \in {None} \cup {Some(n) : n \in 1..MaxFramesCfg}
    /\ frame_count = 0
    /\ frame_limit_reached = FALSE
    /\ failure_count = 0
    /\ max_failures = DefaultMaxFailures
    /\ failure_threshold_reached = FALSE
    /\ success_count_since_failure = 0
    /\ now = StartTime
    /\ wpc = [w \in Workers |-> "idle"]
    /\ last_return = "none"
    /\ failRun = 0
    /\ okRun = 0
    /\ sendFailRun = 0
    /\ unpaused = FALSE

\* A destination as configured for the interleaved runs: rate-limited or not,
\* frame-limited or not, and its max_failures attribute scaled down to
\* RunMaxFailures.
DestConcInit ==
    /\ enabled = TRUE
    /\ is_configured \in BOOLEAN
    /\ rate_limit \in {None, Some(MaxRate)}
    /\ last_publish_time = 0
    /\ max_frames \in {None, Some(MaxFramesCfg)}
    /\ frame_count = 0
    /\ frame_limit_reached = FALSE
    /\ failure_count = 0
    /\ max_failures = RunMaxFailures
    /\ failure_threshold_reached = FALSE
    /\ success_count_since_failure = 0
    /\ now = StartTime
    /\ wpc = [w \in Workers |-> "idle"]
    /\ last_return = "none"
    /\ failRun = 0
    /\ okRun = 0
    /\ sendFailRun = 0
    /\ unpaused = FALSE

\* The publish calls that returned False.
ReturnedFalse == {"refused_disabled", "refused_paused", "refused_rate", "failed"}
\* The positions at or after the transport's _publish call.
Sending == {"send", "recok", "count", "rollback"}

AllIdle == \A w \in Workers : wpc[w] = "idle"

\* time.time() advances.
Tick ==
    /\ now < StartTime + MaxTicks
    /\ now' = now + 1
    /\ UNCHANGED <<enabled, is_configured, rate_limit, last_publish_time, max_frames,
                   frame_count, frame_limit_reached, failure_count, max_failures,
                   failure_threshold_reached, success_count_since_failure,
                   wpc, last_return, failRun, okRun, sendFailRun, unpaused>>
    /\ UNCHANGED nonDestVars

\* _record_failure: the new (failure_count, failure_threshold_reached, enabled).
TripsBreaker(count) ==
    count >= max_failures /\ ~failure_threshold_reached

\* Mutant of ResetsOnSuccess: the comparison is > instead of >=.
ResetsOnSuccessLate(streak) ==
    streak > SuccessesToReset /\ failure_count > 0

\* _record_success: whether the failure counters are reset.
ResetsOnSuccess(streak) ==
    streak >= SuccessesToReset /\ failure_count > 0

\* The history variable failRun after a guarded publish that ended in a
\* recorded failure: the run goes on (or begins, at failure_count = 0) for a
\* configured destination and ends once it is max_failures long.
FailRunAfterFailure ==
    IF is_configured /\ (failRun > 0 \/ failure_count = 0) /\ failRun < max_failures
      THEN failRun + 1
      ELSE 0

\* publish, lines 300-308: the enabled check and the configured check.
PublishBegin(w) ==
    /\ wpc[w] = "idle"
    /\ IF ~enabled
         THEN /\ last_return' = "refused_disabled"
              /\ failRun' = 0
              /\ UNCHANGED <<okRun, sendFailRun, unpaused>>
              /\ UNCHANGED wpc
         ELSE /\ is_configured \/ failure_count < max_failures + ExtraFailures
              /\ wpc' = [wpc EXCEPT ![w] = IF is_configured THEN "gate" ELSE "recfail"]
              /\ UNCHANGED <<last_return, failRun, okRun, sendFailRun, unpaused>>
    /\ UNCHANGED <<enabled, is_configured, rate_limit, last_publish_time, max_frames,
                   frame_count, frame_limit_reached, failure_count, max_failures,
                   failure_threshold_reached, success_count_since_failure, now>>
    /\ UNCHANGED nonDestVars

\* Mutant of RateLimited: the comparison is <= instead of <.
RateLimitedInclusive ==
    rate_limit # None /\ (now - last_publish_time) <= ValueOf(rate_limit)

\* publish, line 324: the rate-limit comparison.
RateLimited ==
    rate_limit # None /\ (now - last_publish_time) < ValueOf(rate_limit)

\* publish, lines 311-330: the critical section under self._lock.
GateSection(w) ==
    /\ wpc[w] = "gate"
    /\ IF frame_limit_reached \/ RateLimited
         THEN /\ wpc' = [wpc EXCEPT ![w] = "idle"]
              /\ last_return' = (IF frame_limit_reached THEN "refused_paused"
                                                                  ELSE "refused_rate")
              /\ failRun' = 0
              /\ UNCHANGED <<okRun, sendFailRun, unpaused>>
              /\ UNCHANGED last_publish_time
         ELSE /\ last_publish_time' = now
              /\ wpc' = [wpc EXCEPT ![w] = "send"]
              /\ UNCHANGED <<last_return, failRun, okRun, sendFailRun, unpaused>>
    /\ UNCHANGED <<enabled, is_configured, rate_limit, max_frames,
                   frame_count, frame_limit_reached, failure_count, max_failures,
                   failure_threshold_reached, success_count_since_failure, now>>

\* publish, lines 310-330: the gate, as one step of a pool thread.
PublishGate(w) ==
    /\ GateSection(w)
    /\ UNCHANGED nonDestVars

\* publish, line 334: the transport's _publish returns True.
SendSucceeds(w) ==
    /\ wpc[w] = "send"
    /\ success_count_since_failure < MaxCount
    /\ frame_count < MaxCount
    /\ wpc' = [wpc EXCEPT ![w] = "recok"]
    /\ UNCHANGED <<enabled, is_configured, rate_limit, last_publish_time, max_frames,
                   frame_count, frame_limit_reached, failure_count, max_failures,
                   failure_threshold_reached, success_count_since_failure, now,
                   last_return, failRun, okRun, sendFailRun, unpaused>>
    /\ UNCHANGED nonDestVars

\* publish, lines 334, 350 and 356: the transport's _publish returns False or raises.
SendFails(w) ==
    /\ wpc[w] = "send"
    /\ failure_count < max_failures + ExtraFailures
    /\ wpc' = [wpc EXCEPT ![w] = "rollback"]
    /\ UNCHANGED <<enabled, is_configured, rate_limit, last_publish_time, max_frames,
                   frame_count, frame_limit_reached, failure_count, max_failures,
                   failure_threshold_reached, success_count_since_failure, now,
                   last_return, failRun, okRun, sendFailRun, unpaused>>
    /\ UNCHANGED nonDestVars

\* publish, line 336: _record_success (lines 142-161).
RecordSuccess(w) ==
    /\ wpc[w] = "recok"
    /\ LET streak == success_count_since_failure + 1 IN
         IF ResetsOnSuccess(streak)
           THEN /\ failure_count' = 0
                /\ success_count_since_failure' = 0
           ELSE /\ success_count_since_failure' = streak
                /\ UNCHANGED failure_count
    /\ wpc' = [wpc EXCEPT ![w] = "count"]
    /\ failRun' = 0
    /\ okRun' = IF okRun < SuccessesToReset THEN okRun + 1 ELSE okRun
    /\ sendFailRun' = 0
    /\ UNCHANGED unpaused
    /\ UNCHANGED <<enabled, is_configured, rate_limit, last_publish_time, max_frames,
                   frame_count, frame_limit_reached, max_failures,
                   failure_threshold_reached, now, last_return>>
    /\ UNCHANGED nonDestVars

\* Mutant of ReachesFrameLimit: the comparison is > instead of >=.
ReachesFrameLimitLate(count) ==
    max_frames # None /\ count > ValueOf(max_frames)

\* publish, line 341: the frame-limit comparison.
ReachesFrameLimit(count) ==
    max_frames # None /\ count >= ValueOf(max_frames)

\* publish, lines 339-349: the frame count under self._lock, then return True.
CountSection(w) ==
    /\ wpc[w] = "count"
    /\ frame_count' = frame_count + 1
    /\ frame_limit_reached' = (frame_limit_reached \/ ReachesFrameLimit(frame_count + 1))
    /\ wpc' = [wpc EXCEPT ![w] = "idle"]
    /\ last_return' = "true"
    /\ UNCHANGED <<enabled, is_configured, rate_limit, last_publish_time, max_frames,
                   failure_count, max_failures, failure_threshold_reached,
                   success_count_since_failure, now, failRun, okRun, sendFailRun, unpaused>>

\* publish, lines 338-349: the count, as one step of a pool thread.
CountFrame(w) ==
    /\ CountSection(w)
    /\ UNCHANGED nonDestVars

\* Mutant of RolledBackTime: the timestamp of the failed send is kept.
RolledBackTimeKept == last_publish_time

\* publish, lines 353 and 359: self.last_publish_time = 0.
RolledBackTime == 0

\* publish, lines 352-353 and 358-359: last_publish_time reverted under self._lock.
RollbackLastPublish(w) ==
    /\ wpc[w] = "rollback"
    /\ last_publish_time' = RolledBackTime
    /\ wpc' = [wpc EXCEPT ![w] = "recfail"]
    /\ UNCHANGED <<enabled, is_configured, rate_limit, max_frames,
                   frame_count, frame_limit_reached, failure_count, max_failures,
                   failure_threshold_reached, success_count_since_failure, now,
                   last_return, failRun, okRun, sendFailRun, unpaused>>
    /\ UNCHANGED nonDestVars

\* publish, lines 307, 354 and 361: _record_failure (lines 122-140), then return False.
RecordFailure(w) ==
    /\ wpc[w] = "recfail"
    /\ failure_count' = failure_count + 1
    /\ success_count_since_failure' = 0
    /\ IF TripsBreaker(failure_count + 1)
         THEN /\ failure_threshold_reached' = TRUE
              /\ enabled' = FALSE
         ELSE UNCHANGED <<failure_threshold_reached, enabled>>
    /\ wpc' = [wpc EXCEPT ![w] = "idle"]
    /\ last_return' = "failed"
    /\ failRun' = FailRunAfterFailure
    /\ okRun' = 0
    /\ sendFailRun' = IF sendFailRun < max_failures THEN sendFailRun + 1
                                                   ELSE sendFailRun
    /\ UNCHANGED unpaused
    /\ UNCHANGED <<is_configured, rate_limit, last_publish_time, max_frames,
                   frame_count, frame_limit_reached, max_failures, now>>
    /\ UNCHANGED nonDestVars

\* reset_failure_count, lines 163-170.
ResetFailureCount ==
    /\ failure_count' = 0
    /\ success_count_since_failure' = 0
    /\ failure_threshold_reached' = FALSE
    /\ enabled' = (enabled \/ is_configured)
    /\ failRun' = 0
    /\ okRun' = 0
    /\ sendFailRun' = 0
    /\ UNCHANGED unpaused
    /\ UNCHANGED <<is_configured, rate_limit, last_publish_time, max_frames,
                   frame_count, frame_limit_reached, max_failures, now, wpc, last_return>>
    /\ UNCHANGED nonDestVars

\* reset_frame_count, lines 172-177.
ResetFrameCount ==
    /\ frame_count' = 0
    /\ frame_limit_reached' = FALSE
    /\ failRun' = 0
    /\ UNCHANGED <<okRun, sendFailRun, unpaused>>
    /\ UNCHANGED <<enabled, is_configured, rate_limit, last_publish_time, max_frames,
                   failure_count, max_failures, failure_threshold_reached,
                   success_count_since_failure, now, wpc, last_return>>
    /\ UNCHANGED nonDestVars

\* InferencePipeline.disable_publisher (pipeline.py:200-221), by id or 'all'.
DisablePublisher ==
    /\ enabled' = FALSE
    /\ failRun' = 0
    /\ UNCHANGED <<okRun, sendFailRun, unpaused>>
    /\ UNCHANGED <<is_configured, rate_limit, last_publish_time, max_frames,
                   frame_count, frame_limit_reached, failure_count, max_failures,
                   failure_threshold_reached, success_count_since_failure,
                   now, wpc, last_return>>
    /\ UNCHANGED nonDestVars

\* The destination after enable_publisher: reset_frame_count if paused, and
\* enabled = True whatever the breaker says.
EnabledAfterToggle == TRUE

\* An enable toggle that never resets the frame count.
ClearsPauseNever == FALSE

\* enable_publisher, lines 230 and 245: the frame count is reset if the
\* destination is paused by its frame limit.
ClearsPause == frame_limit_reached

\* InferencePipeline.enable_publisher(id) (pipeline.py:237-255).
EnablePublisherById ==
    /\ IF ClearsPause
         THEN /\ frame_count' = 0
              /\ frame_limit_reached' = FALSE
         ELSE UNCHANGED <<frame_count, frame_limit_reached>>
    /\ enabled' = EnabledAfterToggle
    /\ failRun' = 0
    /\ unpaused' = (unpaused \/ frame_limit_reached)
    /\ UNCHANGED <<okRun, sendFailRun>>
    /\ UNCHANGED <<is_configured, rate_limit, last_publish_time, max_frames,
                   failure_count, max_failures, failure_threshold_reached,
                   success_count_since_failure, now, wpc, last_return>>
    /\ UNCHANGED nonDestVars

\* InferencePipeline.enable_publisher('all') (pipeline.py:226-235), for this
\* destination: enabled first, then the frame reset.
EnablePublisherAll ==
    /\ enabled' = EnabledAfterToggle
    /\ IF ClearsPause
         THEN /\ frame_count' = 0
              /\ frame_limit_reached' = FALSE
         ELSE UNCHANGED <<frame_count, frame_limit_reached>>
    /\ failRun' = 0
    /\ unpaused' = (unpaused \/ frame_limit_reached)
    /\ UNCHANGED <<okRun, sendFailRun>>
    /\ UNCHANGED <<is_configured, rate_limit, last_publish_time, max_frames,
                   failure_count, max_failures, failure_threshold_reached,
                   success_count_since_failure, now, wpc, last_return>>
    /\ UNCHANGED nonDestVars

\* No thread is inside "self.failure_count += 1".
RaceFixed ==
    /\ failure_count_read = [w \in Workers |-> None]
    /\ update_pc = "idle"

\* _record_failure, line 124: "self.failure_count += 1" loads the attribute.
\* The method takes no lock, so other threads run between the load and the
\* store.
RecordFailureLoad(w) ==
    /\ wpc[w] = "recfail"
    /\ failure_count < max_failures + ExtraFailures
    /\ failure_count_read' = [failure_count_read EXCEPT ![w] = Some(failure_count)]
    /\ UNCHANGED update_pc
    /\ wpc' = [wpc EXCEPT ![w] = "recstore"]
    /\ UNCHANGED <<enabled, is_configured, rate_limit, last_publish_time, max_frames,
                   frame_count, frame_limit_reached, failure_count, max_failures,
                   failure_threshold_reached, success_count_since_failure, now,
                   last_return, failRun, okRun, sendFailRun, unpaused>>
    /\ UNCHANGED <<pubVars, mgrVars, pipeVars, updVars, runVars, latVars,
                   fpsVars, rateVars>>

\* _record_failure, lines 124-140: the store of the incremented value and the
\* rest of the method, then publish returns False.
RecordFailureStore(w) ==
    /\ wpc[w] = "recstore"
    /\ LET count == ValueOf(failure_count_read[w]) + 1 IN
         /\ failure_count' = count
         /\ IF TripsBreaker(count)
              THEN /\ failure_threshold_reached' = TRUE
                   /\ enabled' = FALSE
              ELSE UNCHANGED <<failure_threshold_reached, enabled>>
    /\ success_count_since_failure' = 0
    /\ failure_count_read' = [failure_count_read EXCEPT ![w] = None]
    /\ UNCHANGED update_pc
    /\ wpc' = [wpc EXCEPT ![w] = "idle"]
    /\ last_return' = "failed"
    /\ failRun' = FailRunAfterFailure
    /\ okRun' = 0
    /\ sendFailRun' = IF sendFailRun < max_failures THEN sendFailRun + 1
                                                   ELSE sendFailRun
    /\ UNCHANGED unpaused
    /\ UNCHANGED <<is_configured, rate_limit, last_publish_time, max_frames,
                   frame_count, frame_limit_reached, max_failures, now>>
    /\ UNCHANGED <<pubVars, mgrVars, pipeVars, updVars, runVars, latVars,
                   fpsVars, rateVars>>

\* No publish call has passed the gate.
RateFixed ==
    /\ pass_time = [w \in Workers |-> 0]
    /\ ok_passes = <<>>

\* publish, lines 310-330, with the time at which the call passed the gate
\* kept for the thread.
TimedGate(w) ==
    /\ GateSection(w)
    /\ pass_time' = [pass_time EXCEPT ![w] = IF wpc'[w] = "send" THEN now
                                                              ELSE pass_time[w]]
    /\ UNCHANGED ok_passes
    /\ UNCHANGED <<pubVars, mgrVars, pipeVars, updVars, runVars, latVars,
                   raceVars, fpsVars>>

\* publish, lines 338-349, with the gate-passing time of the call that
\* returns True recorded.
TimedCount(w) ==
    /\ CountSection(w)
    /\ ok_passes' = Append(ok_passes, pass_time[w])
    /\ UNCHANGED pass_time
    /\ UNCHANGED <<pubVars, mgrVars, pipeVars, updVars, runVars, latVars,
                   raceVars, fpsVars>>

\* A configured destination with a rate limit of at least one second, no
\* frame limit and max_failures scaled down to RunMaxFailures.
DestRateInit ==
    /\ DestConcInit
    /\ is_configured
    /\ rate_limit \in {Some(r) : r \in 1..MaxRate}
    /\ max_frames = None

\* Publish calls on the pool threads of one rate-limited destination, in any
\* interleaving.
DestRateNext ==
    \/ Tick
    \/ \E w \in Workers : PublishBegin(w)
    \/ \E w \in Workers : TimedGate(w)
    \/ \E w \in Workers : SendSucceeds(w)
    \/ \E w \in Workers : SendFails(w)
    \/ \E w \in Workers : RecordSuccess(w)
    \/ \E w \in Workers : TimedCount(w)
    \/ \E w \in Workers : RollbackLastPublish(w)
    \/ \E w \in Workers : RecordFailure(w)

\* One caller at a time: a guarded publish, a toggle or a reset begins only
\* when no other call on the destination is in progress.
DestNext ==
    \/ Tick
    \/ \E w \in Workers : AllIdle /\ PublishBegin(w)
    \/ \E w \in Workers : PublishGate(w)
    \/ \E w \in Workers : SendSucceeds(w)
    \/ \E w \in Workers : SendFails(w)
    \/ \E w \in Workers : RecordSuccess(w)
    \/ \E w \in Workers : CountFrame(w)
    \/ \E w \in Workers : RollbackLastPublish(w)
    \/ \E w \in Workers : RecordFailure(w)
    \/ AllIdle /\ ResetFailureCount
    \/ AllIdle /\ ResetFrameCount
    \/ AllIdle /\ DisablePublisher
    \/ AllIdle /\ EnablePublisherById
    \/ AllIdle /\ EnablePublisherAll

\* The same operations as they can really interleave: a publish call starts
\* on a pool thread while another is in flight, and the toggles and resets,
\* which take no lock, run at any moment.
DestConcNext ==
    \/ Tick
    \/ \E w \in Workers : PublishBegin(w)
    \/ \E w \in Workers : PublishGate(w)
    \/ \E w \in Workers : SendSucceeds(w)
    \/ \E w \in Workers : SendFails(w)
    \/ \E w \in Workers : RecordSuccess(w)
    \/ \E w \in Workers : CountFrame(w)
    \/ \E w \in Workers : RollbackLastPublish(w)
    \/ \E w \in Workers : RecordFailureLoad(w)
    \/ \E w \in Workers : RecordFailureStore(w)
    \/ ResetFailureCount
    \/ ResetFrameCount
    \/ DisablePublisher
    \/ EnablePublisherById
    \/ EnablePublisherAll

\* A destination of the default configuration, for the specifications of the
\* other subsystems.
DestFixed ==
    /\ DestInit
    /\ is_configured = TRUE
    /\ rate_limit = None
    /\ max_frames = None

(***************************************************************************)
(* ResultPublisher.publish                                                 *)
(***************************************************************************)
DestFlags == [enabled : BOOLEAN, is_paused : BOOLEAN,
              include_image_data : BOOLEAN, include_result_image : BOOLEAN]

\* The destinations are the input; no publish call has been made and the
\* pool is idle.
PubInit ==
    /\ pdests \in [Dests -> DestFlags]
    /\ ppc = "idle"
    /\ publishes = 0
    /\ encoded_image = FALSE
    /\ encoded_result_image = FALSE
    /\ dest_data = [c \in PublishCalls |-> {}]
    /\ enabled_destinations = <<>>
    /\ pidx = 0
    /\ submitted = <<>>
    /\ running = {}
    /\ received = [d \in Dests |-> {"nothing"}]

PubFixed ==
    /\ PubInit
    /\ pdests = [d \in Dests |-> [enabled |-> TRUE, is_paused |-> FALSE,
                                  include_image_data |-> FALSE,
                                  include_result_image |-> FALSE]]

\* publish, lines 107-110: the destinations that are enabled and not paused,
\* in the order of self.destinations.
RECURSIVE Snapshot(_)
Snapshot(n) ==
    IF n = 0 THEN <<>>
    ELSE IF pdests[n].enabled /\ ~pdests[n].is_paused
           THEN Append(Snapshot(n - 1), n)
           ELSE Snapshot(n - 1)

\* publish, lines 85-110: a call by the pipeline loop (the next one is made
\* once the previous one returned): the copy of the payload, the two
\* encodings (each image may be absent, and cv2.imencode may fail) and the
\* snapshot.
PubPublishBegin ==
    /\ ppc \in {"idle", "returned"}
    /\ publishes < MaxPublishes
    /\ publishes' = publishes + 1
    /\ dest_data' = [dest_data EXCEPT ![publishes + 1] = {}]
    /\ \E img \in BOOLEAN, res \in BOOLEAN :
          /\ encoded_image' = img
          /\ encoded_result_image' = res
    /\ enabled_destinations' = Snapshot(NumDests)
    /\ pidx' = 1
    /\ ppc' = "loop"
    /\ UNCHANGED <<pdests, submitted, running, received>>
    /\ UNCHANGED nonPubVars

\* publish, lines 114-118: the keys of dest_data after the loop body prepared
\* it for destination d.
PreparedData(d) ==
    dest_data[publishes]
      \cup (IF encoded_image /\ pdests[d].include_image_data THEN {"image"} ELSE {})
      \cup (IF encoded_result_image /\ pdests[d].include_result_image
             THEN {"result_image"} ELSE {})

\* A submit that waited for an idle pool thread whenever all of them are
\* occupied.
SubmitWaitsForWorker == Cardinality(running) >= NumWorkers

\* publish, line 121: ThreadPoolExecutor.submit appends the task to the
\* executor's unbounded work queue and returns; it never waits for a pool
\* thread.
SubmitWaits == FALSE

\* publish, lines 112-132: one iteration of the loop, the submit included.
PubSubmit ==
    /\ ppc = "loop"
    /\ pidx <= Len(enabled_destinations)
    /\ ~SubmitWaits
    /\ LET d == enabled_destinations[pidx] IN
          /\ dest_data' = [dest_data EXCEPT ![publishes] = PreparedData(d)]
          /\ submitted' = Append(submitted, <<d, publishes>>)
    /\ pidx' = pidx + 1
    /\ UNCHANGED <<pdests, ppc, publishes, encoded_image, encoded_result_image,
                   enabled_destinations, running, received>>
    /\ UNCHANGED nonPubVars

\* publish, line 112: the loop is over and publish returns.
PubPublishReturn ==
    /\ ppc = "loop"
    /\ pidx > Len(enabled_destinations)
    /\ ppc' = "returned"
    /\ UNCHANGED <<pdests, publishes, encoded_image, encoded_result_image,
                   dest_data, enabled_destinations, pidx, submitted, running,
                   received>>
    /\ UNCHANGED nonPubVars

\* _publish_to_destination, lines 63-69, on a pool thread: an idle pool
\* thread (there are max_workers of them, line 21) takes the oldest queued
\* task; the destination's publish receives the dict the task was submitted
\* with, as it is by then.
PubRunTask ==
    /\ submitted # <<>>
    /\ Cardinality(running) < NumWorkers
    /\ LET task == Head(submitted) IN
          /\ running' = running \cup {task}
          /\ received' = [received EXCEPT ![task[1]] = dest_data[task[2]]]
    /\ submitted' = Tail(submitted)
    /\ UNCHANGED <<pdests, ppc, publishes, encoded_image, encoded_result_image,
                   dest_data, enabled_destinations, pidx>>
    /\ UNCHANGED nonPubVars

\* _publish_to_destination, lines 65-69: the destination's publish returned
\* or raised, and the pool thread is idle again.  A send that blocks for ever
\* never takes this step.
PubTaskDone(task) ==
    /\ task \in running
    /\ running' = running \ {task}
    /\ UNCHANGED <<pdests, ppc, publishes, encoded_image, encoded_result_image,
                   dest_data, enabled_destinations, pidx, submitted, received>>
    /\ UNCHANGED nonPubVars

PubNext ==
    \/ PubPublishBegin
    \/ PubSubmit
    \/ PubPublishReturn
    \/ PubRunTask
    \/ \E task \in Dests \X PublishCalls : PubTaskDone(task)

(***************************************************************************)
(* PipelineManager.start_pipeline, _run_pipeline, stop_pipeline and the    *)
(* InferencePipeline run thread.  The manager holds no lock: the calls and *)
(* threads interleave at the statements that read or write the shared maps *)
(* and the metadata.                                                       *)
(***************************************************************************)

\* PipelineManager.__init__ and create_pipeline: the entry is 'stopped', the
\* maps are empty, no call has been made.
MgrInit ==
    /\ status = "stopped"
    /\ inference_enabled \in BOOLEAN
    /\ active_pipelines = None
    /\ pipeline_threads = None
    /\ cpc = [s \in Starts |-> "idle"]
    /\ cret = [s \in Starts |-> "none"]
    /\ startup_started = [s \in Starts |-> FALSE]
    /\ startup_error = [s \in Starts |-> FALSE]
    /\ total_waited = [s \in Starts |-> 0]
    /\ mpc = [s \in Starts |-> "none"]
    /\ is_running = [s \in Starts |-> FALSE]
    /\ error_state = [s \in Starts |-> FALSE]
    /\ stop_requested = [s \in Starts |-> FALSE]
    /\ pthread = [s \in Starts |-> "none"]
    /\ spc = "idle"
    /\ stop_target = 0
    /\ stops = 0

\* A manager on which nothing is called, for the specifications of the other
\* subsystems.
MgrFixed ==
    /\ MgrInit
    /\ inference_enabled = TRUE

\* start_pipeline, lines 384-401: the call is refused when the entry holds
\* an instance whose is_running() is true.
AlreadyRunning ==
    /\ active_pipelines # None
    /\ ValueOf(active_pipelines) # 0
    /\ is_running[ValueOf(active_pipelines)]

\* start_pipeline, lines 377-401: the check of the active map.  An entry
\* with a running instance returns False; any other entry is removed by
\* _cleanup_stale_pipeline_state (lines 65-74).
StartCheck(s) ==
    /\ cpc[s] = "idle"
    /\ \A r \in Starts : r < s => cpc[r] # "idle"
    /\ IF AlreadyRunning
       THEN /\ cpc' = [cpc EXCEPT ![s] = "done"]
            /\ cret' = [cret EXCEPT ![s] = "already_running"]
            /\ UNCHANGED <<status, active_pipelines, pipeline_threads>>
       ELSE /\ cpc' = [cpc EXCEPT ![s] = "mark"]
            /\ IF active_pipelines # None
               THEN /\ active_pipelines' = None
                    /\ pipeline_threads' = None
                    /\ status' = "stopped"
               ELSE UNCHANGED <<status, active_pipelines, pipeline_threads>>
            /\ UNCHANGED cret
    /\ UNCHANGED <<inference_enabled, startup_started, startup_error,
                   total_waited, mpc, is_running, error_state,
                   stop_requested, pthread, spc, stop_target, stops>>
    /\ UNCHANGED nonMgrVars

\* start_pipeline, lines 413-432: status 'starting' and a fresh entry
\* without 'pipeline_instance'.
StartMark(s) ==
    /\ cpc[s] = "mark"
    /\ status' = "starting"
    /\ active_pipelines' = Some(0)
    /\ cpc' = [cpc EXCEPT ![s] = "spawn"]
    /\ UNCHANGED <<inference_enabled, pipeline_threads, cret,
                   startup_started, startup_error, total_waited, mpc,
                   is_running, error_state, stop_requested, pthread,
                   spc, stop_target, stops>>
    /\ UNCHANGED nonMgrVars

\* start_pipeline, lines 434-442: the _run_pipeline thread is started and
\* recorded.
StartSpawn(s) ==
    /\ cpc[s] = "spawn"
    /\ mpc' = [mpc EXCEPT ![s] = "init"]
    /\ pipeline_threads' = Some(s)
    /\ cpc' = [cpc EXCEPT ![s] = "poll"]
    /\ UNCHANGED <<status, inference_enabled, active_pipelines, cret,
                   startup_started, startup_error, total_waited,
                   is_running, error_state, stop_requested, pthread,
                   spc, stop_target, stops>>
    /\ UNCHANGED nonMgrVars

\* start_pipeline, lines 444-468: one iteration of the startup wait, or its
\* timeout once total_waited has reached the limit.
StartPoll(s) ==
    /\ cpc[s] = "poll"
    /\ IF total_waited[s] < PollLimit
       THEN IF startup_started[s]
            THEN /\ status' = "running"
                 /\ cpc' = [cpc EXCEPT ![s] = "done"]
                 /\ cret' = [cret EXCEPT ![s] = "true"]
                 /\ UNCHANGED total_waited
            ELSE IF startup_error[s]
                 THEN /\ cpc' = [cpc EXCEPT ![s] = "rollback"]
                      /\ cret' = [cret EXCEPT ![s] = "startup_error"]
                      /\ UNCHANGED <<status, total_waited>>
                 ELSE /\ total_waited' =
                             [total_waited EXCEPT ![s] = total_waited[s] + 1]
                      /\ UNCHANGED <<status, cpc, cret>>
       ELSE /\ cpc' = [cpc EXCEPT ![s] = "rollback"]
            /\ cret' = [cret EXCEPT ![s] = "timeout"]
            /\ UNCHANGED <<status, total_waited>>
    /\ UNCHANGED <<inference_enabled, active_pipelines, pipeline_threads,
                   startup_started, startup_error, mpc, is_running,
                   error_state, stop_requested, pthread, spc, stop_target,
                   stops>>
    /\ UNCHANGED nonMgrVars

\* start_pipeline, lines 454-455 and 466-467: the id is removed from the
\* active map.
StartRollbackActive(s) ==
    /\ cpc[s] = "rollback"
    /\ active_pipelines' = None
    /\ cpc' = [cpc EXCEPT ![s] = "mark_error"]
    /\ UNCHANGED <<status, inference_enabled, pipeline_threads, cret,
                   startup_started, startup_error, total_waited, mpc,
                   is_running, error_state, stop_requested, pthread,
                   spc, stop_target, stops>>
    /\ UNCHANGED nonMgrVars

\* start_pipeline, lines 457 and 468: status 'error'.
StartMarkError(s) ==
    /\ cpc[s] = "mark_error"
    /\ status' = "error"
    /\ cpc' = [cpc EXCEPT ![s] = "return_false"]
    /\ UNCHANGED <<inference_enabled, active_pipelines, pipeline_threads,
                   cret, startup_started, startup_error, total_waited, mpc,
                   is_running, error_state, stop_requested, pthread,
                   spc, stop_target, stops>>
    /\ UNCHANGED nonMgrVars

\* start_pipeline, lines 458-459 and 469-470: the metadata file is written
\* and the call returns False.
StartReturnFalse(s) ==
    /\ cpc[s] = "return_false"
    /\ cpc' = [cpc EXCEPT ![s] = "done"]
    /\ UNCHANGED <<status, inference_enabled, active_pipelines,
                   pipeline_threads, cret, startup_started, startup_error,
                   total_waited, mpc, is_running, error_state,
                   stop_requested, pthread, spc, stop_target, stops>>
    /\ UNCHANGED nonMgrVars

\* _run_pipeline, line 1126: _initialize_pipeline builds and configures the
\* instance, or raises.
RunInitialize(s) ==
    /\ mpc[s] = "init"
    /\ \E ok \in BOOLEAN :
          mpc' = [mpc EXCEPT ![s] = IF ok THEN "store" ELSE "except"]
    /\ UNCHANGED <<status, inference_enabled, active_pipelines,
                   pipeline_threads, cpc, cret, startup_started,
                   startup_error, total_waited, is_running, error_state,
                   stop_requested, pthread, spc, stop_target, stops>>
    /\ UNCHANGED nonMgrVars

\* _run_pipeline, line 1129: the instance is stored in whatever entry the
\* active map holds for the id; a missing entry raises KeyError.
RunStoreInstance(s) ==
    /\ mpc[s] = "store"
    /\ IF active_pipelines = None
       THEN /\ mpc' = [mpc EXCEPT ![s] = "except"]
            /\ UNCHANGED active_pipelines
       ELSE /\ active_pipelines' = Some(s)
            /\ mpc' = [mpc EXCEPT ![s] = "start"]
    /\ UNCHANGED <<status, inference_enabled, pipeline_threads, cpc, cret,
                   startup_started, startup_error, total_waited,
                   is_running, error_state, stop_requested, pthread,
                   spc, stop_target, stops>>
    /\ UNCHANGED nonMgrVars

\* _run_pipeline, line 1134, InferencePipeline.start (pipeline.py 680-701):
\* the instance is initialized and not running, so the stop flag is cleared
\* and the run thread is started.
RunStartPipeline(s) ==
    /\ mpc[s] = "start"
    /\ stop_requested' = [stop_requested EXCEPT ![s] = FALSE]
    /\ pthread' = [pthread EXCEPT ![s] = "spawned"]
    /\ mpc' = [mpc EXCEPT ![s] = "signal"]
    /\ UNCHANGED <<status, inference_enabled, active_pipelines,
                   pipeline_threads, cpc, cret, startup_started,
                   startup_error, total_waited, is_running, error_state,
                   spc, stop_target, stops>>
    /\ UNCHANGED nonMgrVars

\* _run_pipeline, lines 1137-1138: startup_status['started'] = True.
RunSignalStarted(s) ==
    /\ mpc[s] = "signal"
    /\ startup_started' = [startup_started EXCEPT ![s] = TRUE]
    /\ mpc' = [mpc EXCEPT ![s] = "watch"]
    /\ UNCHANGED <<status, inference_enabled, active_pipelines,
                   pipeline_threads, cpc, cret, startup_error,
                   total_waited, is_running, error_state, stop_requested,
                   pthread, spc, stop_target, stops>>
    /\ UNCHANGED nonMgrVars

\* _run_pipeline, line 1141: the watch loop ends when the id has left the
\* active map.
RunWatchEnds(s) ==
    /\ mpc[s] = "watch"
    /\ active_pipelines = None
    /\ mpc' = [mpc EXCEPT ![s] = "done"]
    /\ UNCHANGED <<status, inference_enabled, active_pipelines,
                   pipeline_threads, cpc, cret, startup_started,
                   startup_error, total_waited, is_running, error_state,
                   stop_requested, pthread, spc, stop_target, stops>>
    /\ UNCHANGED nonMgrVars

\* _run_pipeline, lines 1142-1158: after the one-second sleep the instance
\* is found not running while the id is still in the active map.  The run
\* thread, started before the sleep, has begun by then.  On a fault line
\* 1151 writes status 'error' and line 1153 disables inference; then, fault
\* or not, _cleanup_stale_pipeline_state (line 1157, lines 65-74) empties
\* both maps and writes status 'stopped' over it.
RunDetectStopped(s) ==
    /\ mpc[s] = "watch"
    /\ active_pipelines # None
    /\ pthread[s] # "spawned"
    /\ ~is_running[s]
    /\ inference_enabled' = IF error_state[s] THEN FALSE ELSE inference_enabled
    /\ active_pipelines' = None
    /\ pipeline_threads' = None
    /\ status' = "stopped"
    /\ mpc' = [mpc EXCEPT ![s] = "done"]
    /\ UNCHANGED <<cpc, cret, startup_started, startup_error, total_waited,
                   is_running, error_state, stop_requested, pthread,
                   spc, stop_target, stops>>
    /\ UNCHANGED nonMgrVars

\* _run_pipeline, lines 1162-1167: the except clause signals the startup
\* failure.
RunSignalError(s) ==
    /\ mpc[s] = "except"
    /\ startup_error' = [startup_error EXCEPT ![s] = TRUE]
    /\ mpc' = [mpc EXCEPT ![s] = "cleanup"]
    /\ UNCHANGED <<status, inference_enabled, active_pipelines,
                   pipeline_threads, cpc, cret, startup_started,
                   total_waited, is_running, error_state, stop_requested,
                   pthread, spc, stop_target, stops>>
    /\ UNCHANGED nonMgrVars

\* _run_pipeline, line 1170, _cleanup_stale_pipeline_state (lines 65-74).
RunExceptCleanup(s) ==
    /\ mpc[s] = "cleanup"
    /\ active_pipelines' = None
    /\ pipeline_threads' = None
    /\ status' = "stopped"
    /\ mpc' = [mpc EXCEPT ![s] = "mark_error"]
    /\ UNCHANGED <<inference_enabled, cpc, cret, startup_started,
                   startup_error, total_waited, is_running, error_state,
                   stop_requested, pthread, spc, stop_target, stops>>
    /\ UNCHANGED nonMgrVars

\* _run_pipeline, lines 1171-1174: status 'error', inference disabled.
RunExceptMarkError(s) ==
    /\ mpc[s] = "mark_error"
    /\ status' = "error"
    /\ inference_enabled' = FALSE
    /\ mpc' = [mpc EXCEPT ![s] = "done"]
    /\ UNCHANGED <<active_pipelines, pipeline_threads, cpc, cret,
                   startup_started, startup_error, total_waited,
                   is_running, error_state, stop_requested, pthread,
                   spc, stop_target, stops>>
    /\ UNCHANGED nonMgrVars

\* InferencePipeline.run, lines 514-515: the run thread marks the instance
\* running and clears the error.
PipelineRunBegins(p) ==
    /\ pthread[p] = "spawned"
    /\ pthread' = [pthread EXCEPT ![p] = "loop"]
    /\ is_running' = [is_running EXCEPT ![p] = TRUE]
    /\ error_state' = [error_state EXCEPT ![p] = FALSE]
    /\ UNCHANGED <<status, inference_enabled, active_pipelines,
                   pipeline_threads, cpc, cret, startup_started,
                   startup_error, total_waited, mpc, stop_requested,
                   spc, stop_target, stops>>
    /\ UNCHANGED nonMgrVars

\* InferencePipeline.run, lines 517-661: the loop ends, on a stop request or
\* a disconnected source (faulted = FALSE) or on an exception (faulted =
\* TRUE, lines 648-654); the finally clause clears _is_running.
PipelineRunEnds(p) ==
    /\ pthread[p] = "loop"
    /\ \E faulted \in BOOLEAN :
          error_state' = [error_state EXCEPT ![p] = faulted]
    /\ pthread' = [pthread EXCEPT ![p] = "finished"]
    /\ is_running' = [is_running EXCEPT ![p] = FALSE]
    /\ UNCHANGED <<status, inference_enabled, active_pipelines,
                   pipeline_threads, cpc, cret, startup_started,
                   startup_error, total_waited, mpc, stop_requested,
                   spc, stop_target, stops>>
    /\ UNCHANGED nonMgrVars

\* stop_pipeline, lines 481-486, and InferencePipeline.stop, line 708: the
\* instance of the entry, if it has one, is asked to stop.
StopBegin ==
    /\ spc = "idle"
    /\ stops < MaxStops
    /\ \E s \in Starts : cpc[s] # "idle"
    /\ stops' = stops + 1
    /\ IF active_pipelines # None /\ ValueOf(active_pipelines) # 0
       THEN /\ stop_target' = ValueOf(active_pipelines)
            /\ stop_requested' =
                   [stop_requested EXCEPT ![ValueOf(active_pipelines)] = TRUE]
            /\ spc' = "join"
       ELSE /\ spc' = "mark"
            /\ UNCHANGED <<stop_target, stop_requested>>
    /\ UNCHANGED <<status, inference_enabled, active_pipelines,
                   pipeline_threads, cpc, cret, startup_started,
                   startup_error, total_waited, mpc, is_running,
                   error_state, pthread>>
    /\ UNCHANGED nonMgrVars

\* InferencePipeline.stop, lines 721-735: the join returns when the run
\* thread has ended or after five seconds, and _is_running is cleared.
StopJoin ==
    /\ spc = "join"
    /\ is_running' = [is_running EXCEPT ![stop_target] = FALSE]
    /\ spc' = "mark"
    /\ UNCHANGED <<status, inference_enabled, active_pipelines,
                   pipeline_threads, cpc, cret, startup_started,
                   startup_error, total_waited, mpc, error_state,
                   stop_requested, pthread, stop_target, stops>>
    /\ UNCHANGED nonMgrVars

\* stop_pipeline, lines 489-490: status 'stopped'.
StopMark ==
    /\ spc = "mark"
    /\ status' = "stopped"
    /\ spc' = "remove"
    /\ UNCHANGED <<inference_enabled, active_pipelines, pipeline_threads,
                   cpc, cret, startup_started, startup_error, total_waited,
                   mpc, is_running, error_state, stop_requested, pthread,
                   stop_target, stops>>
    /\ UNCHANGED nonMgrVars

\* stop_pipeline, lines 493-501: the id leaves both maps and the call
\* returns True.
StopRemove ==
    /\ spc = "remove"
    /\ active_pipelines' = None
    /\ pipeline_threads' = None
    /\ spc' = "idle"
    /\ UNCHANGED <<status, inference_enabled, cpc, cret, startup_started,
                   startup_error, total_waited, mpc, is_running,
                   error_state, stop_requested, pthread, stop_target, stops>>
    /\ UNCHANGED nonMgrVars

MgrNext ==
    \/ \E s \in Starts : StartCheck(s)
    \/ \E s \in Starts : StartMark(s)
    \/ \E s \in Starts : StartSpawn(s)
    \/ \E s \in Starts : StartPoll(s)
    \/ \E s \in Starts : StartRollbackActive(s)
    \/ \E s \in Starts : StartMarkError(s)
    \/ \E s \in Starts : StartReturnFalse(s)
    \/ \E s \in Starts : RunInitialize(s)
    \/ \E s \in Starts : RunStoreInstance(s)
    \/ \E s \in Starts : RunStartPipeline(s)
    \/ \E s \in Starts : RunSignalStarted(s)
    \/ \E s \in Starts : RunWatchEnds(s)
    \/ \E s \in Starts : RunDetectStopped(s)
    \/ \E s \in Starts : RunSignalError(s)
    \/ \E s \in Starts : RunExceptCleanup(s)
    \/ \E s \in Starts : RunExceptMarkError(s)
    \/ \E p \in Starts : PipelineRunBegins(p)
    \/ \E p \in Starts : PipelineRunEnds(p)
    \/ StopBegin
    \/ StopJoin
    \/ StopMark
    \/ StopRemove

(***************************************************************************)
(* InferencePipeline: configure, start, the run thread, stop and the       *)
(* inference toggles.  The pipeline's state flags are plain attributes     *)
(* written without a lock by the callers and by the run threads.           *)
(***************************************************************************)

\* InferencePipeline.__init__, lines 22-58.
PipeInit ==
    /\ _is_initialized = FALSE
    /\ _is_running = FALSE
    /\ _error_state = None
    /\ _stop_requested = FALSE
    /\ _inference_enabled = TRUE
    /\ _frame_counter = 0
    /\ _inference_counter = 0
    /\ _start_time = 0
    /\ perf_counter = 1
    /\ is_folder_source \in BOOLEAN
    /\ start_pc = [c \in PCalls |-> "idle"]
    /\ start_result = [c \in PCalls |-> "none"]
    /\ run_thread = [c \in PCalls |-> "none"]
    /\ thread = 0
    /\ stop_pc = "idle"
    /\ raised = 0
    /\ caught_at_boundary = FALSE
    /\ _frame_lock = 0
    /\ _latest_frame = FALSE
    /\ _thumbnail_path \in BOOLEAN

\* A pipeline on which nothing is called, for the specifications of the
\* other subsystems.
PipeFixed ==
    /\ PipeInit
    /\ is_folder_source = FALSE
    /\ _thumbnail_path = FALSE

\* Python truth value of an optional string (None and '' are false).
Truthy(opt) == opt # None /\ ValueOf(opt) # ""

\* get_state, lines 63-88: the combined status string.
GetStateStatus ==
    IF Truthy(_error_state)
    THEN IF _is_initialized THEN "initialized_error"
                            ELSE "uninitialized_error"
    ELSE IF _is_running THEN "initialized_running"
    ELSE IF _is_initialized THEN "initialized_stopped"
    ELSE "uninitialized_stopped"

\* has_error, lines 98-100.
HasError == _error_state # None

\* The run threads that have been started and have not ended.
AliveThreads ==
    {t \in PCalls : run_thread[t] \in {"spawned", "loop", "store"}}

\* configure, lines 663-678, when the source and the engine are created and
\* the model loads.
PipeConfigure ==
    /\ ~_is_initialized
    /\ _is_initialized' = TRUE
    /\ _error_state' = None
    /\ UNCHANGED <<_is_running, _stop_requested, _inference_enabled,
                   _frame_counter, _inference_counter, _start_time,
                   perf_counter, is_folder_source, start_pc, start_result,
                   run_thread, thread, stop_pc, raised, caught_at_boundary>>
    /\ UNCHANGED frameVars
    /\ UNCHANGED nonPipeVars

\* A start that never raises, whatever _is_initialized is.
StartRaisesNever == FALSE

\* start, lines 684-685: a pipeline that is not initialized raises.
StartRaises == ~_is_initialized

\* start, lines 684-689: the two checks.  The call raises RuntimeError when
\* the pipeline is not initialized and returns at once when _is_running is
\* set.
PipeStartCheck(c) ==
    /\ start_pc[c] = "idle"
    /\ \A b \in PCalls : b < c => start_pc[b] # "idle"
    /\ IF StartRaises
       THEN /\ start_pc' = [start_pc EXCEPT ![c] = "done"]
            /\ start_result' = [start_result EXCEPT ![c] = "raised"]
       ELSE IF _is_running
       THEN /\ start_pc' = [start_pc EXCEPT ![c] = "done"]
            /\ start_result' = [start_result EXCEPT ![c] = "already_running"]
       ELSE /\ start_pc' = [start_pc EXCEPT ![c] = "spawn"]
            /\ UNCHANGED start_result
    /\ UNCHANGED <<_is_initialized, _is_running, _error_state,
                   _stop_requested, _inference_enabled, _frame_counter,
                   _inference_counter, _start_time, perf_counter,
                   is_folder_source, run_thread, thread, stop_pc, raised,
                   caught_at_boundary>>
    /\ UNCHANGED frameVars
    /\ UNCHANGED nonPipeVars

\* start, lines 691-701: the start time is taken, the stop flag and the
\* counters are reset, and a run thread is created and started.
PipeStartSpawn(c) ==
    /\ start_pc[c] = "spawn"
    /\ _start_time' = perf_counter
    /\ perf_counter' = perf_counter + 1
    /\ _stop_requested' = FALSE
    /\ _frame_counter' = 0
    /\ _inference_counter' = 0
    /\ run_thread' = [run_thread EXCEPT ![c] = "spawned"]
    /\ thread' = c
    /\ start_pc' = [start_pc EXCEPT ![c] = "done"]
    /\ start_result' = [start_result EXCEPT ![c] = "started"]
    /\ UNCHANGED <<_is_initialized, _is_running, _error_state,
                   _inference_enabled, is_folder_source, stop_pc, raised,
                   caught_at_boundary>>
    /\ UNCHANGED frameVars
    /\ UNCHANGED nonPipeVars

\* run, lines 513-515: the run thread marks the pipeline running and clears
\* the error.
LoopBegin(t) ==
    /\ run_thread[t] = "spawned"
    /\ run_thread' = [run_thread EXCEPT ![t] = "loop"]
    /\ _is_running' = TRUE
    /\ _error_state' = None
    /\ UNCHANGED <<_is_initialized, _stop_requested, _inference_enabled,
                   _frame_counter, _inference_counter, _start_time,
                   perf_counter, is_folder_source, start_pc, start_result,
                   thread, stop_pc, raised, caught_at_boundary>>
    /\ UNCHANGED frameVars
    /\ UNCHANGED nonPipeVars

\* run, lines 530-628: the first part of an iteration: the thread reads a
\* frame, counts it, runs and counts an inference if inference is enabled,
\* and takes _frame_lock to draw and store the frame.
LoopFrame(t) ==
    /\ run_thread[t] = "loop"
    /\ ~_stop_requested
    /\ _frame_counter < MaxLoopFrames
    /\ _frame_lock = 0
    /\ _frame_lock' = t
    /\ run_thread' = [run_thread EXCEPT ![t] = "store"]
    /\ _frame_counter' = _frame_counter + 1
    /\ _inference_counter' = IF _inference_enabled
                             THEN _inference_counter + 1
                             ELSE _inference_counter
    /\ UNCHANGED <<_is_initialized, _is_running, _error_state,
                   _stop_requested, _inference_enabled, _start_time,
                   perf_counter, is_folder_source, start_pc, start_result,
                   thread, stop_pc, raised, caught_at_boundary>>
    /\ UNCHANGED <<_latest_frame, _thumbnail_path>>
    /\ UNCHANGED nonPipeVars

\* run, lines 611-646: the rest of the iteration: inference_engine.draw and
\* capture_thumbnail return, the frame is stored, _frame_lock is released
\* and the results are published.  A draw or an image write that never
\* returns never takes this step.
LoopStore(t) ==
    /\ run_thread[t] = "store"
    /\ _latest_frame' = TRUE
    /\ _frame_lock' = 0
    /\ run_thread' = [run_thread EXCEPT ![t] = "loop"]
    /\ UNCHANGED <<_is_initialized, _is_running, _error_state,
                   _stop_requested, _inference_enabled, _frame_counter,
                   _inference_counter, _start_time, perf_counter,
                   is_folder_source, start_pc, start_result, thread, stop_pc,
                   raised, caught_at_boundary>>
    /\ UNCHANGED _thumbnail_path
    /\ UNCHANGED nonPipeVars

\* run, lines 532-547: a folder source is found disconnected and connect()
\* raises; the inner except clause sleeps and continues the loop.
LoopReconnectRaises(t) ==
    /\ run_thread[t] = "loop"
    /\ ~_stop_requested
    /\ is_folder_source
    /\ raised < MaxRaised
    /\ raised' = raised + 1
    /\ caught_at_boundary' = FALSE
    /\ UNCHANGED <<_is_initialized, _is_running, _error_state,
                   _stop_requested, _inference_enabled, _frame_counter,
                   _inference_counter, _start_time, perf_counter,
                   is_folder_source, start_pc, start_result, run_thread,
                   thread, stop_pc>>
    /\ UNCHANGED frameVars
    /\ UNCHANGED nonPipeVars

\* Mutant of DisconnectEndsLoop: a disconnected source of any type ends the
\* loop.
DisconnectEndsLoopAlways == TRUE

\* run, lines 532-551: a disconnected source ends the loop (break) unless
\* _is_folder_source() (lines 370-377) is true.
DisconnectEndsLoop == ~is_folder_source

\* run, lines 530-551 and 655-661: the loop ends because a stop is requested
\* or because a source that is not a folder is disconnected; the finally
\* clause clears _is_running.
LoopExits(t) ==
    /\ run_thread[t] = "loop"
    /\ _stop_requested \/ DisconnectEndsLoop
    /\ run_thread' = [run_thread EXCEPT ![t] = "finished"]
    /\ _is_running' = FALSE
    /\ UNCHANGED <<_is_initialized, _error_state, _stop_requested,
                   _inference_enabled, _frame_counter, _inference_counter,
                   _start_time, perf_counter, is_folder_source, start_pc,
                   start_result, thread, stop_pc, raised,
                   caught_at_boundary>>
    /\ UNCHANGED frameVars
    /\ UNCHANGED nonPipeVars

\* run, lines 648-661: an exception with message msg leaves the try block
\* (and the with block of _frame_lock, if the thread is inside it);
\* the except clause records str(e) and disables inference, the finally
\* clause clears _is_running.
LoopFaults(t) ==
    /\ run_thread[t] \in {"loop", "store"}
    /\ raised < MaxRaised
    /\ _frame_lock' = IF _frame_lock = t THEN 0 ELSE _frame_lock
    /\ UNCHANGED <<_latest_frame, _thumbnail_path>>
    /\ \E msg \in Messages : _error_state' = Some(msg)
    /\ _inference_enabled' = FALSE
    /\ _is_running' = FALSE
    /\ run_thread' = [run_thread EXCEPT ![t] = "finished"]
    /\ raised' = raised + 1
    /\ caught_at_boundary' = TRUE
    /\ UNCHANGED <<_is_initialized, _stop_requested, _frame_counter,
                   _inference_counter, _start_time, perf_counter,
                   is_folder_source, start_pc, start_result, thread,
                   stop_pc>>
    /\ UNCHANGED nonPipeVars

\* stop, lines 708-712: the stop flag is set; the call goes on to update the
\* thumbnail if there is a latest frame and a thumbnail path, and to the
\* join otherwise.
PipeStopBegin ==
    /\ stop_pc = "idle"
    /\ \E c \in PCalls : start_pc[c] # "idle"
    /\ ~_stop_requested \/ _is_running
    /\ _stop_requested' = TRUE
    /\ stop_pc' = IF _latest_frame /\ _thumbnail_path THEN "thumbnail"
                  ELSE IF thread # 0 /\ thread \in AliveThreads
                  THEN "join" ELSE "finish"
    /\ UNCHANGED <<_is_initialized, _is_running, _error_state,
                   _inference_enabled, _frame_counter, _inference_counter,
                   _start_time, perf_counter, is_folder_source, start_pc,
                   start_result, run_thread, thread, raised,
                   caught_at_boundary>>
    /\ UNCHANGED frameVars
    /\ UNCHANGED nonPipeVars

\* stop, lines 713-723: 'with self._frame_lock' waits, without a timeout,
\* until the lock is free; the frame is copied, the lock released and the
\* thumbnail written; the call joins self.thread if that thread is alive.
PipeStopThumbnail ==
    /\ stop_pc = "thumbnail"
    /\ _frame_lock = 0
    /\ stop_pc' = IF thread # 0 /\ thread \in AliveThreads
                  THEN "join" ELSE "finish"
    /\ UNCHANGED <<_is_initialized, _is_running, _error_state,
                   _stop_requested, _inference_enabled, _frame_counter,
                   _inference_counter, _start_time, perf_counter,
                   is_folder_source, start_pc, start_result, run_thread,
                   thread, raised, caught_at_boundary>>
    /\ UNCHANGED frameVars
    /\ UNCHANGED nonPipeVars

\* stop, lines 721-724: join(timeout=5.0) returns, because the thread has
\* ended or because five seconds have passed.
PipeStopJoin ==
    /\ stop_pc = "join"
    /\ stop_pc' = "finish"
    /\ UNCHANGED <<_is_initialized, _is_running, _error_state,
                   _stop_requested, _inference_enabled, _frame_counter,
                   _inference_counter, _start_time, perf_counter,
                   is_folder_source, start_pc, start_result, run_thread,
                   thread, raised, caught_at_boundary>>
    /\ UNCHANGED frameVars
    /\ UNCHANGED nonPipeVars

\* stop, lines 726-737: the source is stopped and _is_running is cleared.
PipeStopFinish ==
    /\ stop_pc = "finish"
    /\ _is_running' = FALSE
    /\ stop_pc' = "idle"
    /\ UNCHANGED <<_is_initialized, _error_state, _stop_requested,
                   _inference_enabled, _frame_counter, _inference_counter,
                   _start_time, perf_counter, is_folder_source, start_pc,
                   start_result, run_thread, thread, raised,
                   caught_at_boundary>>
    /\ UNCHANGED frameVars
    /\ UNCHANGED nonPipeVars

\* enable_inference, lines 349-352, and disable_inference, lines 354-357.
PipeSetInference(on) ==
    /\ _inference_enabled # on
    /\ _inference_enabled' = on
    /\ UNCHANGED <<_is_initialized, _is_running, _error_state,
                   _stop_requested, _frame_counter, _inference_counter,
                   _start_time, perf_counter, is_folder_source, start_pc,
                   start_result, run_thread, thread, stop_pc, raised,
                   caught_at_boundary>>
    /\ UNCHANGED frameVars
    /\ UNCHANGED nonPipeVars

PipeNext ==
    \/ PipeConfigure
    \/ \E c \in PCalls : PipeStartCheck(c)
    \/ \E c \in PCalls : PipeStartSpawn(c)
    \/ \E t \in PCalls : LoopBegin(t)
    \/ \E t \in PCalls : LoopFrame(t)
    \/ \E t \in PCalls : LoopStore(t)
    \/ \E t \in PCalls : LoopReconnectRaises(t)
    \/ \E t \in PCalls : LoopExits(t)
    \/ \E t \in PCalls : LoopFaults(t)
    \/ PipeStopBegin
    \/ PipeStopThumbnail
    \/ PipeStopJoin
    \/ PipeStopFinish
    \/ \E on \in BOOLEAN : PipeSetInference(on)

(***************************************************************************)
(* PipelineManager.create_pipeline and update_pipeline.  A destination id  *)
(* is a number: 0 stands for a missing or empty id, a negative number for  *)
(* a frontend id that is not in UUID format, a positive number for a UUID. *)
(***************************************************************************)
\* The (type, config) pairs of the submitted destinations.
DestKinds == {<<"mqtt", "a">>, <<"mqtt", "b">>, <<"webhook", "a">>}

\* The UUID that _ensure_destination_uuid derives from the MD5 hash of a
\* frontend id (lines 144-150): the same UUID for the same id, and a
\* different one from every id of the other kinds.
Md5Uuid(frontend_id) == 100 - frontend_id

\* The value of the k-th uuid.uuid4() call: distinct from every other id.
Uuid4(k) == 200 + k

\* _ensure_destination_uuid, lines 134-150.
EnsureDestinationUuid(dest_id, fresh) ==
    IF dest_id = 0 THEN fresh
    ELSE IF dest_id > 0 THEN dest_id
    ELSE Md5Uuid(dest_id)

\* The destinations a caller can submit: 'id' and 'enabled' may be absent.
\* A stored destination has a boolean 'enabled'.
SubmittedIdsCreate == {0, -1}
SubmittedIdsUpdate == {0, -1, Md5Uuid(-1)}
SubmittedDests(ids, enabled_values) ==
    {[id |-> i, type |-> k[1], config |-> k[2], enabled |-> e] :
        i \in ids, k \in DestKinds, e \in enabled_values}
SubmittedLists(ids, enabled_values) ==
    UNION {[1..n -> SubmittedDests(ids, enabled_values)] :
              n \in 0..MaxDestList}

\* create_pipeline, lines 156-169: the i-th destination as stored.
CreatedDest(new, fresh) ==
    [id |-> IF new.id = 0 THEN fresh
            ELSE EnsureDestinationUuid(new.id, fresh),
     type |-> new.type,
     config |-> new.config,
     enabled |-> IF new.enabled = "absent" THEN TRUE
                 ELSE new.enabled = "true"]

\* update_pipeline, lines 331-337: the first existing destination with the
\* submitted id (0 when there is none or no id was submitted).
FindById(existing, new) ==
    IF new.id # 0 /\ \E i \in 1..Len(existing) : existing[i].id = new.id
    THEN CHOOSE i \in 1..Len(existing) :
            /\ existing[i].id = new.id
            /\ \A j \in 1..(i - 1) : existing[j].id # new.id
    ELSE 0

\* update_pipeline, lines 339-345: the first existing destination with the
\* submitted type and config (0 when there is none).
SameTypeConfig(e, new) == e.type = new.type /\ e.config = new.config

FindByTypeConfig(existing, new) ==
    IF \E i \in 1..Len(existing) : SameTypeConfig(existing[i], new)
    THEN CHOOSE i \in 1..Len(existing) :
            /\ SameTypeConfig(existing[i], new)
            /\ \A j \in 1..(i - 1) : ~SameTypeConfig(existing[j], new)
    ELSE 0

\* update_pipeline, lines 329-345: the match by id, else by type and config.
ExistingDest(existing, new) ==
    IF FindById(existing, new) # 0 THEN FindById(existing, new)
    ELSE FindByTypeConfig(existing, new)

\* update_pipeline, lines 347-351: the enabled state of a submitted
\* destination that matches an existing one is the submitted value, and the
\* existing one's only when the submitted entry has no 'enabled'.
EnabledOfMatched(new, existing_dest) ==
    IF new.enabled = "absent" THEN existing_dest.enabled
    ELSE new.enabled = "true"

\* update_pipeline, lines 326-360: the stored form of one submitted
\* destination.
ProcessedDest(existing, new, fresh) ==
    IF ExistingDest(existing, new) # 0
    THEN [id |-> existing[ExistingDest(existing, new)].id,
          type |-> new.type,
          config |-> new.config,
          enabled |-> EnabledOfMatched(new,
                          existing[ExistingDest(existing, new)])]
    ELSE [id |-> EnsureDestinationUuid(new.id, fresh),
          type |-> new.type,
          config |-> new.config,
          enabled |-> IF new.enabled = "absent" THEN TRUE
                      ELSE new.enabled = "true"]

\* The configurations a caller can pass to update_pipeline.
UpdateConfigs ==
    [destinations : SubmittedLists(SubmittedIdsUpdate,
                                   {"absent", "true", "false"}),
     name : {"absent", "renamed"}]

\* The manager right after start_pipeline has written the active entry of
\* its first call (lines 425-432).
MgrStarting ==
    /\ status = "starting"
    /\ inference_enabled = TRUE
    /\ active_pipelines = Some(0)
    /\ pipeline_threads = None
    /\ cpc = [s \in Starts |-> IF s = 1 THEN "spawn" ELSE "idle"]
    /\ cret = [s \in Starts |-> "none"]
    /\ startup_started = [s \in Starts |-> FALSE]
    /\ startup_error = [s \in Starts |-> FALSE]
    /\ total_waited = [s \in Starts |-> 0]
    /\ mpc = [s \in Starts |-> "none"]
    /\ is_running = [s \in Starts |-> FALSE]
    /\ error_state = [s \in Starts |-> FALSE]
    /\ stop_requested = [s \in Starts |-> FALSE]
    /\ pthread = [s \in Starts |-> "none"]
    /\ spc = "idle"
    /\ stop_target = 0
    /\ stops = 0

\* create_pipeline, lines 152-190: the entry as created from a submitted
\* configuration.
UpdInit ==
    /\ \E cfg \in SubmittedLists(SubmittedIdsCreate, {"absent", "false"}) :
          /\ destinations =
                [i \in 1..Len(cfg) |-> CreatedDest(cfg[i], Uuid4(i))]
          /\ uuid4_calls = Len(cfg)
    /\ name = "created"
    /\ modified_date = 0
    /\ update_calls = 0
    /\ update_config = [destinations |-> <<>>, name |-> "absent"]
    /\ update_result = "none"

\* An entry nothing is called on, for the specifications of the other
\* subsystems.
UpdFixed ==
    /\ destinations = <<>>
    /\ uuid4_calls = 0
    /\ name = "created"
    /\ modified_date = 0
    /\ update_calls = 0
    /\ update_config = [destinations |-> <<>>, name |-> "absent"]
    /\ update_result = "none"

\* A call that is never refused.
UpdateRefusedNever == FALSE

\* update_pipeline, lines 308-310: the update is refused while the id is in
\* the active map.
UpdateRefused == active_pipelines # None

\* update_pipeline, lines 303-375.
UpdatePipeline(config) ==
    /\ update_calls < MaxUpdates
    /\ update_calls' = update_calls + 1
    /\ update_config' = config
    /\ IF UpdateRefused
       THEN /\ update_result' = "false"
            /\ UNCHANGED <<destinations, name, modified_date, uuid4_calls>>
       ELSE /\ update_result' = "true"
            /\ name' = IF config.name = "absent" THEN name ELSE config.name
            /\ destinations' =
                  [i \in 1..Len(config.destinations) |->
                      ProcessedDest(destinations, config.destinations[i],
                                    Uuid4(uuid4_calls + i))]
            /\ uuid4_calls' = uuid4_calls + Len(config.destinations)
            /\ modified_date' = modified_date + 1
    /\ UNCHANGED mgrVars
    /\ UNCHANGED nonUpdVars

UpdNext == \E config \in UpdateConfigs : UpdatePipeline(config)

\* update_pipeline, lines 305-310, on its own thread: the checks of the
\* registry and of the active map.  PipelineManager holds no lock, so
\* start_pipeline runs between this check and the writes that follow it.
UpdateCheck(config) ==
    /\ update_pc = "idle"
    /\ update_calls < MaxUpdates
    /\ update_calls' = update_calls + 1
    /\ update_config' = config
    /\ IF UpdateRefused
       THEN /\ update_result' = "false"
            /\ UNCHANGED update_pc
       ELSE /\ update_pc' = "apply"
            /\ UNCHANGED update_result
    /\ UNCHANGED <<destinations, name, modified_date, uuid4_calls>>
    /\ UNCHANGED failure_count_read
    /\ UNCHANGED mgrVars
    /\ UNCHANGED <<destVars, pubVars, pipeVars, runVars, latVars, fpsVars,
                   rateVars>>

\* update_pipeline, lines 312-375: the entry self.metadata[id], the dict that
\* start_pipeline hands to the pipeline it builds, is written in place.
UpdateApply ==
    /\ update_pc = "apply"
    /\ update_pc' = "idle"
    /\ update_result' = "true"
    /\ name' = IF update_config.name = "absent" THEN name ELSE update_config.name
    /\ destinations' =
          [i \in 1..Len(update_config.destinations) |->
              ProcessedDest(destinations, update_config.destinations[i],
                            Uuid4(uuid4_calls + i))]
    /\ uuid4_calls' = uuid4_calls + Len(update_config.destinations)
    /\ modified_date' = modified_date + 1
    /\ UNCHANGED <<update_calls, update_config>>
    /\ UNCHANGED failure_count_read
    /\ UNCHANGED mgrVars
    /\ UNCHANGED <<destVars, pubVars, pipeVars, runVars, latVars, fpsVars,
                   rateVars>>

\* The configurations passed to the update_pipeline call that runs together
\* with start_pipeline.
UpdStartConfigs ==
    {config \in UpdateConfigs : Len(config.destinations) <= MaxConcDestList}

\* update_pipeline on one thread and start_pipeline calls on others.
UpdStartNext ==
    \/ \E config \in UpdStartConfigs : UpdateCheck(config)
    \/ UpdateApply
    \/ \E s \in Starts : StartCheck(s)
    \/ \E s \in Starts : StartMark(s)
    \/ \E s \in Starts : StartSpawn(s)

(***************************************************************************)
(* A running InferencePipeline that publishes its results: the run loop    *)
(* hands one task per destination to the publisher's pool, and the sends   *)
(* succeed, return false or raise on the pool threads.                     *)
(***************************************************************************)
SendOutcomes == {"true", "false", "raises"}

\* The pipeline has been configured and started (configure, start and run
\* lines 513-515 of call 1) and its publisher holds NumDests destinations
\* that are enabled and have not failed.
RunInit ==
    /\ _is_initialized = TRUE
    /\ _is_running = TRUE
    /\ _error_state = None
    /\ _stop_requested = FALSE
    /\ _inference_enabled = TRUE
    /\ _frame_counter = 0
    /\ _inference_counter = 0
    /\ _start_time = 1
    /\ perf_counter = 2
    /\ is_folder_source \in BOOLEAN
    /\ start_pc = [c \in PCalls |-> IF c = 1 THEN "done" ELSE "idle"]
    /\ start_result = [c \in PCalls |-> IF c = 1 THEN "started" ELSE "none"]
    /\ run_thread = [c \in PCalls |-> IF c = 1 THEN "loop" ELSE "none"]
    /\ thread = 1
    /\ stop_pc = "idle"
    /\ raised = 0
    /\ caught_at_boundary = FALSE
    /\ _frame_lock = 0
    /\ _latest_frame = FALSE
    /\ _thumbnail_path \in BOOLEAN
    /\ dstate = [d \in Dests |-> [enabled |-> TRUE, failure_count |-> 0,
                                  success_count_since_failure |-> 0,
                                  failure_threshold_reached |-> FALSE]]
    /\ queue = <<>>
    /\ sends_failed = 0

\* No destination and no send, for the specifications of the other
\* subsystems.
RunFixed ==
    /\ dstate = [d \in Dests |-> [enabled |-> TRUE, failure_count |-> 0,
                                  success_count_since_failure |-> 0,
                                  failure_threshold_reached |-> FALSE]]
    /\ queue = <<>>
    /\ sends_failed = 0

\* publisher.py, lines 107-110: the enabled destinations, in order.
RECURSIVE EnabledDests(_)
EnabledDests(n) ==
    IF n = 0 THEN <<>>
    ELSE IF dstate[n].enabled THEN Append(EnabledDests(n - 1), n)
         ELSE EnabledDests(n - 1)

\* run, lines 530-646: one whole iteration, in which every call returns: the
\* thread reads a frame, counts it, runs and counts an inference if
\* inference is enabled, stores the frame under _frame_lock and publishes
\* the results: publish submits one task per enabled destination and
\* returns.
RunLoopFrame(t) ==
    /\ run_thread[t] = "loop"
    /\ ~_stop_requested
    /\ _frame_counter < MaxLoopFrames
    /\ _frame_lock = 0
    /\ _latest_frame' = TRUE
    /\ UNCHANGED <<_frame_lock, _thumbnail_path>>
    /\ _frame_counter' = _frame_counter + 1
    /\ IF _inference_enabled
       THEN /\ _inference_counter' = _inference_counter + 1
            /\ queue' = queue \o EnabledDests(NumDests)
       ELSE UNCHANGED <<_inference_counter, queue>>
    /\ UNCHANGED <<_is_initialized, _is_running, _error_state,
                   _stop_requested, _inference_enabled, _start_time,
                   perf_counter, is_folder_source, start_pc, start_result,
                   run_thread, thread, stop_pc, raised, caught_at_boundary>>
    /\ UNCHANGED <<dstate, sends_failed>>
    /\ UNCHANGED nonRunVars

\* _record_failure, lines 122-140, with max_failures = RunMaxFailures.
RunRecordFailure(st) ==
    LET n == st.failure_count + 1
        trips == n >= RunMaxFailures /\ ~st.failure_threshold_reached
    IN [enabled |-> IF trips THEN FALSE ELSE st.enabled,
        failure_count |-> n,
        success_count_since_failure |-> 0,
        failure_threshold_reached |-> st.failure_threshold_reached \/ trips]

\* _record_success, lines 142-160.
RunRecordSuccess(st) ==
    LET n == st.success_count_since_failure + 1 IN
    IF n >= SuccessesToReset /\ st.failure_count > 0
    THEN [st EXCEPT !.failure_count = 0, !.success_count_since_failure = 0]
    ELSE [st EXCEPT !.success_count_since_failure =
                       IF n > SuccessesToReset THEN SuccessesToReset ELSE n]

\* A send whose exception no handler catches on its way to the thread that
\* called ResultPublisher.publish.
SendReachesLoopUncaught(outcome) == outcome = "raises"

\* BaseResultDestination.publish, lines 333-362, _publish_to_destination,
\* lines 63-69, and log_result, lines 124-129: whether an exception of the
\* send reaches the thread that called ResultPublisher.publish.  publish
\* turns a raising _publish into the return value False; the task turns a
\* raising publish into False; log_result catches what fut.result() raises.
SendReachesLoop(outcome) ==
    LET published == IF outcome = "true" THEN "true" ELSE "false"
        task == IF published = "raises" THEN "false" ELSE published
        logged == IF task = "raises" THEN "caught" ELSE task
    IN logged = "raises"

\* _publish_to_destination, lines 63-69, and BaseResultDestination.publish,
\* lines 298-362, on a pool thread: the oldest task ends.  A destination
\* that is disabled by then returns False without sending; otherwise the
\* send has the given outcome and the destination records it.  An
\* exception that reached the run loop would leave it through its except
\* clause (pipeline.py, lines 648-661).
SendEnds(outcome) ==
    /\ queue # <<>>
    /\ LET d == Head(queue)
           sent == dstate[d].enabled
           live == {t \in PCalls : run_thread[t] = "loop"}
       IN /\ queue' = Tail(queue)
          /\ dstate' = [dstate EXCEPT ![d] =
                IF ~sent THEN @
                ELSE IF outcome = "true" THEN RunRecordSuccess(@)
                ELSE RunRecordFailure(@)]
          /\ sends_failed' = IF sent /\ outcome # "true"
                             THEN sends_failed + 1 ELSE sends_failed
          /\ IF sent /\ SendReachesLoop(outcome) /\ live # {}
             THEN /\ _error_state' = Some("boom")
                  /\ _inference_enabled' = FALSE
                  /\ _is_running' = FALSE
                  /\ run_thread' = [t \in PCalls |->
                        IF t \in live THEN "finished" ELSE run_thread[t]]
             ELSE UNCHANGED <<_error_state, _inference_enabled, _is_running,
                              run_thread>>
    /\ UNCHANGED <<_is_initialized, _stop_requested, _frame_counter,
                   _inference_counter, _start_time, perf_counter,
                   is_folder_source, start_pc, start_result, thread, stop_pc,
                   raised, caught_at_boundary>>
    /\ UNCHANGED frameVars
    /\ UNCHANGED nonRunVars

RunNext ==
    \/ \E t \in PCalls : RunLoopFrame(t)
    \/ \E outcome \in SendOutcomes : SendEnds(outcome)
    \/ \E t \in PCalls : LoopFaults(t)
    \/ \E t \in PCalls : LoopExits(t)
    \/ PipeStopBegin
    \/ PipeStopThumbnail
    \/ PipeStopJoin
    \/ PipeStopFinish
    \/ \E on \in BOOLEAN : PipeSetInference(on)

(***************************************************************************)
(* The rolling inference-latency window: the run thread appends and trims, *)
(* and get_metrics, on a request thread, averages what it finds; no lock   *)
(* is taken on either side.                                                *)
(***************************************************************************)
\* Latencies in whole milliseconds.
Latencies == {1, 2, 4}

\* start, line 698: the buffer is empty when the run begins.
LatInit ==
    /\ _inference_latencies = <<>>
    /\ lat_pc = "idle"
    /\ measured = <<>>
    /\ latency_ms = -1
    /\ metrics_calls = 0

LatFixed == LatInit

\* run, lines 585-597: an inference is timed and its latency appended.
LatAppend(latency) ==
    /\ lat_pc = "idle"
    /\ Len(measured) < MaxInferences
    /\ _inference_latencies' = Append(_inference_latencies, latency)
    /\ measured' = Append(measured, latency)
    /\ lat_pc' = "appended"
    /\ UNCHANGED <<latency_ms, metrics_calls>>
    /\ UNCHANGED nonLatVars

\* run, lines 600-601: the oldest sample is dropped if the buffer is longer
\* than the window.
LatTrim ==
    /\ lat_pc = "appended"
    /\ _inference_latencies' =
          IF Len(_inference_latencies) > LatencyWindow
          THEN Tail(_inference_latencies)
          ELSE _inference_latencies
    /\ lat_pc' = "idle"
    /\ UNCHANGED <<measured, latency_ms, metrics_calls>>
    /\ UNCHANGED nonLatVars

RECURSIVE SumSeq(_)
SumSeq(q) == IF q = <<>> THEN 0 ELSE Head(q) + SumSeq(Tail(q))

\* round(total / n, 1) in tenths: the quotient rounded to the nearest
\* tenth, a tie going to the even one.
RoundTenths(total, n) ==
    LET q == (10 * total) \div n
        r == (10 * total) % n
    IN IF 2 * r < n THEN q
       ELSE IF 2 * r > n THEN q + 1
       ELSE IF q % 2 = 0 THEN q ELSE q + 1

\* _calculate_rolling_latency, lines 170-179.
CalculateRollingLatency(buffer) ==
    IF buffer = <<>> THEN 0 ELSE RoundTenths(SumSeq(buffer), Len(buffer))

\* get_metrics, line 124, on a request thread.
LatGetMetrics ==
    /\ metrics_calls < MaxMetricsCalls
    /\ metrics_calls' = metrics_calls + 1
    /\ latency_ms' = CalculateRollingLatency(_inference_latencies)
    /\ UNCHANGED <<_inference_latencies, lat_pc, measured>>
    /\ UNCHANGED nonLatVars

LatNext ==
    \/ \E latency \in Latencies : LatAppend(latency)
    \/ LatTrim
    \/ LatGetMetrics

(***************************************************************************)
(* The FPS window: the run thread appends a timestamp per frame, and       *)
(* get_metrics, on a request thread, rebuilds the list without the old     *)
(* timestamps; no lock is taken on either side.                            *)
(***************************************************************************)
\* The timestamps of a list that are not older than the cutoff, as the list
\* comprehensions of lines 154 and 583 build them.
NotOlderThan(timestamps, cutoff) ==
    LET Keep(ts) == ts >= cutoff IN SelectSeq(timestamps, Keep)

\* start, lines 693-697: counters and timestamps are reset when a run begins.
FpsInit ==
    /\ _frame_timestamps = <<>>
    /\ fps_clock = 0
    /\ fps_frame_counter = 0
    /\ metrics_pc = "idle"
    /\ metrics_cutoff = 0
    /\ metrics_filtered = <<>>
    /\ fps_metrics_calls = 0

FpsFixed == FpsInit

\* time.perf_counter() advances.
FpsTick ==
    /\ fps_clock < MaxFpsTicks
    /\ fps_clock' = fps_clock + 1
    /\ UNCHANGED <<_frame_timestamps, fps_frame_counter, metrics_pc,
                   metrics_cutoff, metrics_filtered, fps_metrics_calls>>
    /\ UNCHANGED nonFpsVars

\* run, lines 574-583: the frame is counted, its timestamp appended to the
\* list self._frame_timestamps refers to, and every FpsCleanupEvery frames
\* the old timestamps are dropped.
FpsAppend ==
    /\ fps_frame_counter < MaxFpsFrames
    /\ fps_frame_counter' = fps_frame_counter + 1
    /\ LET appended == Append(_frame_timestamps, fps_clock) IN
         _frame_timestamps' =
            IF (fps_frame_counter + 1) % FpsCleanupEvery = 0
            THEN NotOlderThan(appended, fps_clock - (FpsWindow + 2))
            ELSE appended
    /\ UNCHANGED <<fps_clock, metrics_pc, metrics_cutoff, metrics_filtered,
                   fps_metrics_calls>>
    /\ UNCHANGED nonFpsVars

\* get_metrics, lines 117-121, and _calculate_rolling_fps, lines 153-154: the
\* comprehension reads the list and builds the filtered one.
MetricsFilter ==
    /\ metrics_pc = "idle"
    /\ fps_metrics_calls < MaxMetricsCalls
    /\ fps_metrics_calls' = fps_metrics_calls + 1
    /\ metrics_cutoff' = fps_clock - FpsWindow
    /\ metrics_filtered' = NotOlderThan(_frame_timestamps, fps_clock - FpsWindow)
    /\ metrics_pc' = "filtered"
    /\ UNCHANGED <<_frame_timestamps, fps_clock, fps_frame_counter>>
    /\ UNCHANGED nonFpsVars

\* _calculate_rolling_fps, line 154: the filtered list is assigned to
\* self._frame_timestamps.
MetricsStore ==
    /\ metrics_pc = "filtered"
    /\ _frame_timestamps' = metrics_filtered
    /\ metrics_pc' = "idle"
    /\ UNCHANGED <<fps_clock, fps_frame_counter, metrics_cutoff,
                   metrics_filtered, fps_metrics_calls>>
    /\ UNCHANGED nonFpsVars

FpsNext ==
    \/ FpsTick
    \/ FpsAppend
    \/ MetricsFilter
    \/ MetricsStore

(***************************************************************************)
(* Specifications                                                          *)
(***************************************************************************)
InitDest ==
    DestInit /\ PubFixed /\ MgrFixed /\ PipeFixed /\ UpdFixed /\ RunFixed
        /\ LatFixed
        /\ RaceFixed
        /\ FpsFixed
        /\ RateFixed
InitPub ==
    PubInit /\ DestFixed /\ MgrFixed /\ PipeFixed /\ UpdFixed /\ RunFixed
        /\ LatFixed
        /\ RaceFixed
        /\ FpsFixed
        /\ RateFixed
InitMgr ==
    MgrInit /\ DestFixed /\ PubFixed /\ PipeFixed /\ UpdFixed /\ RunFixed
        /\ LatFixed
        /\ RaceFixed
        /\ FpsFixed
        /\ RateFixed
InitPipe ==
    PipeInit /\ DestFixed /\ PubFixed /\ MgrFixed /\ UpdFixed /\ RunFixed
        /\ LatFixed
        /\ RaceFixed
        /\ FpsFixed
        /\ RateFixed
InitUpd ==
    UpdInit /\ (MgrFixed \/ MgrStarting) /\ DestFixed /\ PubFixed
            /\ PipeFixed /\ RunFixed
        /\ LatFixed
        /\ RaceFixed
        /\ FpsFixed
        /\ RateFixed
InitRun ==
    RunInit /\ DestFixed /\ PubFixed /\ MgrFixed /\ UpdFixed /\ LatFixed
        /\ RaceFixed
        /\ FpsFixed
        /\ RateFixed
InitLat ==
    LatInit /\ DestFixed /\ PubFixed /\ MgrFixed /\ PipeFixed /\ UpdFixed
        /\ RunFixed
        /\ RaceFixed
        /\ FpsFixed
        /\ RateFixed
InitUpdStart ==
    UpdInit /\ Len(destinations) <= MaxConcDestList
        /\ MgrInit /\ DestFixed /\ PubFixed /\ PipeFixed /\ RunFixed
        /\ LatFixed /\ RaceFixed
        /\ FpsFixed
        /\ RateFixed
InitFps ==
    FpsInit /\ DestFixed /\ PubFixed /\ MgrFixed /\ PipeFixed /\ UpdFixed
        /\ RunFixed /\ LatFixed /\ RaceFixed
        /\ RateFixed
InitDestRate ==
    DestRateInit /\ PubFixed /\ MgrFixed /\ PipeFixed /\ UpdFixed /\ RunFixed
        /\ LatFixed /\ RaceFixed /\ FpsFixed /\ RateFixed
InitDestConc ==
    DestConcInit /\ PubFixed /\ MgrFixed /\ PipeFixed /\ UpdFixed /\ RunFixed
        /\ LatFixed
        /\ RaceFixed
        /\ FpsFixed
        /\ RateFixed

SpecDest == InitDest /\ [][DestNext]_vars
SpecDestConc == InitDestConc /\ [][DestConcNext]_vars
SpecUpdStart == InitUpdStart /\ [][UpdStartNext]_vars
SpecFps == InitFps /\ [][FpsNext]_vars
SpecDestRate == InitDestRate /\ [][DestRateNext]_vars
SpecPub == InitPub /\ [][PubNext]_vars
\* The thread that called publish keeps executing its own statements; nothing
\* is assumed about the pool threads, whose sends may block for ever.
SpecPubLive ==
    /\ InitPub
    /\ [][PubNext]_vars
    /\ WF_vars(PubSubmit)
    /\ WF_vars(PubPublishReturn)
SpecMgr == InitMgr /\ [][MgrNext]_vars
SpecPipe == InitPipe /\ [][PipeNext]_vars
\* The thread that called stop keeps executing its own statements, and a
\* join with a timeout ends; nothing is assumed about the run threads, whose
\* calls into the engine and the image library may never return.
SpecPipeLive ==
    /\ InitPipe
    /\ [][PipeNext]_vars
    /\ WF_vars(PipeStopThumbnail)
    /\ WF_vars(PipeStopJoin)
    /\ WF_vars(PipeStopFinish)
SpecUpd == InitUpd /\ [][UpdNext]_vars
SpecRun == InitRun /\ [][RunNext]_vars
SpecLat == InitLat /\ [][LatNext]_vars

(***************************************************************************)
(* Claims about BaseResultDestination, checked under SpecDest.             *)
(***************************************************************************)

\* C1: in every reachable state of a destination, failure_threshold_reached
\* implies enabled = false.  Violated: enable_publisher sets enabled = True on
\* a tripped destination and leaves failure_threshold_reached set.
C1_BreakerImpliesDisabled ==
    failure_threshold_reached => ~enabled

\* C2: a configured, enabled destination with failure_count = 0 whose guarded
\* publish fails max_failures times in a row is disabled with the breaker
\* tripped after the last of these failures, and not before it.
C2_TripsAtNthFailure ==
    /\ (failRun >= 1 /\ failRun < max_failures)
          => ~(~enabled /\ failure_threshold_reached)
    /\ failRun = max_failures
          => (~enabled /\ failure_threshold_reached)

\* C3: once the breaker has tripped, a further guarded publish attempt is
\* refused: it returns False without reaching the transport and leaves
\* failure_count unchanged.
C3_TrippedRefuses ==
    [][\A w \in Workers :
          (PublishBegin(w) /\ failure_threshold_reached)
             => /\ wpc'[w] = "idle"
                /\ last_return' \in ReturnedFalse
                /\ failure_count' = failure_count]_vars

\* C4: after the breaker has tripped only reset_failure_count (the one
\* operation that clears failure_threshold_reached) re-enables the
\* destination: any other step, the enable toggle included, leaves a tripped
\* destination disabled.
C4_OnlyResetReenables ==
    [][(failure_threshold_reached /\ ~enabled /\ failure_threshold_reached')
          => ~enabled']_vars

\* C9: with max_frames = N the destination is paused exactly when N sends have
\* succeeded since the last frame reset; while it is paused no transport send
\* is in progress, every publish attempt returns False at the gate and
\* frame_count stays N; the pause ends only with frame_count back at 0.
C9_PausedState ==
    max_frames # None =>
        /\ frame_count <= ValueOf(max_frames)
        /\ frame_limit_reached <=> (frame_count = ValueOf(max_frames))
        /\ frame_limit_reached => \A w \in Workers : wpc[w] \notin Sending

C9_PausedStep ==
    /\ \A w \in Workers :
          (frame_limit_reached /\ wpc[w] = "gate" /\ wpc'[w] # "gate")
             => /\ wpc'[w] = "idle"
                /\ last_return' = "refused_paused"
                /\ frame_count' = frame_count
                /\ frame_limit_reached'
    /\ (frame_limit_reached /\ ~frame_limit_reached') => frame_count' = 0
    /\ (frame_limit_reached /\ ResetFrameCount)
          => (~frame_limit_reached' /\ frame_count' = 0)

C9_FrameLimitPause ==
    []C9_PausedState /\ [][C9_PausedStep]_vars

\* C9 witness: a paused destination whose frame_count is max_frames has
\* refused a publish attempt.
C9_Witness ==
    /\ max_frames # None
    /\ frame_limit_reached
    /\ frame_count = ValueOf(max_frames)
    /\ last_return = "refused_paused"
    /\ AllIdle

\* C10: with rate_limit = R an attempt that reaches the gate of an unpaused
\* destination less than R after the recorded last send is refused without a
\* transport send and leaves last_publish_time, failure_count and frame_count
\* unchanged; one that reaches it R or more after the recorded last send is
\* accepted (the send starts and last_publish_time becomes the current time).
C10_RateLimit ==
    [][\A w \in Workers :
          (wpc[w] = "gate" /\ wpc'[w] # "gate"
              /\ rate_limit # None /\ ~frame_limit_reached)
             => IF now - last_publish_time < ValueOf(rate_limit)
                  THEN /\ wpc'[w] = "idle"
                       /\ last_return' = "refused_rate"
                       /\ last_publish_time' = last_publish_time
                       /\ failure_count' = failure_count
                       /\ frame_count' = frame_count
                  ELSE /\ wpc'[w] = "send"
                       /\ last_publish_time' = now]_vars

\* C10 witness: one attempt was refused by the rate limit and a later one,
\* made after the limit had elapsed, is being sent.
C10_Witness ==
    /\ rate_limit # None
    /\ last_return = "refused_rate"
    /\ \E w \in Workers : wpc[w] = "send"
    /\ last_publish_time = now
    /\ now > StartTime

(***************************************************************************)
(* Claims about ResultPublisher.publish, checked under SpecPub.            *)
(***************************************************************************)

\* C8: within one publish call the payload a destination receives holds the
\* encoded raw image only if that destination has include_image_data set, and
\* the encoded result image only if it has include_result_image set.
\* Violated: dest_data is one dict shared by all the destinations of the call,
\* so a key attached for one destination stays for the others.
C8_ImageOnlyIfRequested ==
    \A d \in Dests :
        /\ "image" \in received[d] => pdests[d].include_image_data
        /\ "result_image" \in received[d] => pdests[d].include_result_image

\* C17: every publish call that has started returns, whatever the pool
\* threads do: no step of a destination's send is needed for it, also when
\* every pool thread is occupied by a send that never completes.
C17_PublishReturns == (ppc = "loop") ~> (ppc = "returned")

\* C17 witness: publish has returned while every pool thread is still inside
\* a send and a task of this call is still waiting in the queue.
C17_Witness ==
    /\ ppc = "returned"
    /\ Cardinality(running) = NumWorkers
    /\ \E i \in 1..Len(submitted) : submitted[i][2] = publishes

(***************************************************************************)
(* Further claims about BaseResultDestination, checked under SpecDest.     *)
(***************************************************************************)

\* C16: when a destination with 0 < failure_count < max_failures records a
\* successful send, failure_count and the success streak are both 0
\* afterwards if this is the third success in a row since the last failure,
\* and failure_count is unchanged if it is the first or the second.
C16_ThreeSuccessesReset ==
    [][\A w \in Workers :
          (/\ wpc[w] = "recok" /\ wpc'[w] = "count"
           /\ failure_count > 0 /\ failure_count < max_failures)
          => IF okRun + 1 >= 3
               THEN failure_count' = 0 /\ success_count_since_failure' = 0
               ELSE failure_count' = failure_count]_vars

\* C16 witness: a third success in a row has just reset the counters of a
\* destination whose breaker never tripped.
C16_Witness ==
    /\ okRun = 3
    /\ failure_count = 0
    /\ success_count_since_failure = 0
    /\ ~failure_threshold_reached
    /\ last_return = "true"
    /\ AllIdle

\* C22: the breaker trips only at the end of max_failures failures in a
\* row: at the step that sets failure_threshold_reached, the failures
\* recorded since the last successful send number max_failures.
\* Violated: a success resets failure_count only when it is the third in a
\* row (lines 152-155), so failures separated by one or two successes add up
\* and the breaker trips on max_failures failures that were not consecutive.
C22_TripsOnlyOnConsecutive ==
    [][(~failure_threshold_reached /\ failure_threshold_reached')
          => sendFailRun' >= max_failures]_vars

\* C23: an enable toggle (enable_publisher by id or for all) on a
\* destination that is paused by its frame limit leaves it enabled, not
\* paused and with frame_count = 0, so that its gate no longer refuses a
\* publish as paused.
C23_ToggleClearsPause ==
    [][((EnablePublisherById \/ EnablePublisherAll) /\ frame_limit_reached)
          => /\ ~frame_limit_reached'
             /\ frame_count' = 0
             /\ enabled']_vars

\* C23 witness: after a toggle cleared a pause, a send was accepted and
\* counted again.
C23_Witness ==
    /\ unpaused
    /\ frame_count >= 1
    /\ ~frame_limit_reached
    /\ last_return = "true"
    /\ AllIdle

(***************************************************************************)
(* Claims about PipelineManager, checked under SpecMgr.                    *)
(***************************************************************************)

\* The instances whose processing loop is live: the run thread has been
\* started, has not ended, and has not been asked to stop.
LiveLoops ==
    {p \in Starts : pthread[p] \in {"spawned", "loop"} /\ ~stop_requested[p]}

\* C5: for every interleaving of two start_pipeline calls for the same id, at
\* most one Pipeline instance and one processing loop is ever live for that
\* id.  Violated: the second call finds the first call's entry without an
\* instance (or with an instance whose run thread has not yet set
\* _is_running), removes it as stale and starts a second thread; both
\* threads then start their own instance.
C5_AtMostOneLiveLoop == Cardinality(LiveLoops) <= 1

\* C6: when the watch loop detects that the pipeline has stopped, the entry
\* ends with status 'error' and inference_enabled = false after a fault, with
\* status 'stopped' after a clean stop, and the id leaves the active map.
\* Violated: after a fault the status ends as 'stopped'.
C6_DetectedStopStatus ==
    [][\A s \in Starts :
          (mpc[s] = "watch" /\ active_pipelines # None /\ mpc'[s] = "done")
          => /\ active_pipelines' = None
             /\ IF error_state[s]
                THEN status' = "error" /\ ~inference_enabled'
                ELSE status' = "stopped"]_vars

\* C7: whenever start_pipeline returns False after a startup error or a
\* timeout, at the moment of the return the id is absent from the active map
\* and the status is 'error'.  Stated for a call that is the only call made
\* on the manager.  Violated: the call's own _run_pipeline thread, in its
\* except clause, writes status 'stopped' (_cleanup_stale_pipeline_state)
\* between the call's write of 'error' and its return.
C7_RollbackOnFailure ==
    [][\A s \in Starts :
          (/\ cpc[s] = "return_false" /\ cpc'[s] = "done"
           /\ \A r \in Starts \ {s} : cpc[r] = "idle"
           /\ stops = 0)
          => (active_pipelines' = None /\ status' = "error")]_vars

\* C20: whenever the active map holds a Pipeline instance for the id, that
\* instance reports is_running() = true.
\* Violated: _run_pipeline stores the instance (line 1129) before it calls
\* pipeline.start() (line 1134), and _is_running is set only when the run
\* thread begins (pipeline.py:514); an instance whose loop has ended stays
\* in the map until the watch loop or stop_pipeline removes it.
C20_ActiveInstanceRunning ==
    (active_pipelines # None /\ ValueOf(active_pipelines) # 0)
        => is_running[ValueOf(active_pipelines)]

\* C21: when stop_pipeline returns, the id is in neither the active map nor
\* the thread map and the entry's status is 'stopped'; and the steps of a
\* call made while nothing is active for the id change nothing but the
\* status.
\* Violated: stop_pipeline holds no lock, so a start_pipeline call that is
\* between its check (line 405) and its bookkeeping (lines 425-432) writes
\* 'starting' after stop_pipeline wrote 'stopped' and before it returns.
C21_StopPostcondition ==
    [][/\ (spc = "remove" /\ spc' = "idle")
          => /\ active_pipelines' = None
             /\ pipeline_threads' = None
             /\ status' = "stopped"
       /\ (spc' # spc /\ active_pipelines = None /\ pipeline_threads = None)
          => UNCHANGED <<active_pipelines, pipeline_threads,
                         inference_enabled, is_running, stop_requested,
                         error_state>>]_vars

\* C26: a start_pipeline call that waits for the startup polls a bounded
\* number of times and is never held up by the worker (one of its own steps
\* is always possible), and it leaves the wait with exactly one outcome:
\* success only if the status record reports started, startup failure only
\* if it reports an error and not started, and the timeout failure only if
\* it does not report started.  (The two failures return the same value
\* and roll back alike, so an error reported late is not told apart here.)
\* Violated: when the loop condition fails (line 439) the call goes to the
\* timeout branch without reading the status record again, so a worker that
\* reports started during the last sleep is answered with the timeout
\* failure and the rollback.
C26_BoundedWaitThreeOutcomes ==
    /\ [](\A s \in Starts :
            /\ total_waited[s] <= PollLimit
            /\ cpc[s] \in {"poll", "rollback", "mark_error", "return_false"}
                  => ENABLED (\/ StartPoll(s)
                              \/ StartRollbackActive(s)
                              \/ StartMarkError(s)
                              \/ StartReturnFalse(s)))
    /\ [][\A s \in Starts :
            (cpc[s] = "poll" /\ cpc'[s] # "poll")
            => /\ cret'[s] \in {"true", "startup_error", "timeout"}
               /\ cret'[s] = "true" => startup_started[s]
               /\ cret'[s] = "startup_error"
                     => (startup_error[s] /\ ~startup_started[s])
               /\ cret'[s] = "timeout" => ~startup_started[s]]_vars

(***************************************************************************)
(* Claims about InferencePipeline, checked under SpecPipe.                 *)
(***************************************************************************)

\* C11: start() on a pipeline that was never configured fails with an error
\* and has no side effects: no run thread is created and the state flags, the
\* stop flag, the start time and the counters are unchanged.
C11_UnconfiguredStartFails ==
    [][\A c \in PCalls :
          (start_pc[c] = "idle" /\ start_pc'[c] # "idle" /\ ~_is_initialized)
          => /\ start_pc'[c] = "done"
             /\ start_result'[c] = "raised"
             /\ UNCHANGED <<run_thread, thread, _is_initialized, _is_running,
                            _error_state, _stop_requested, _inference_enabled,
                            _start_time, _frame_counter, _inference_counter>>]_vars

\* C11 witness: a start() call has raised on the unconfigured pipeline and no
\* run thread exists.
C11_Witness ==
    /\ ~_is_initialized
    /\ \E c \in PCalls : start_pc[c] = "done" /\ start_result[c] = "raised"
    /\ \A t \in PCalls : run_thread[t] = "none"

\* C12: any exception raised inside the processing loop is caught at the
\* loop boundary and leaves the pipeline in state error: not running,
\* inference disabled, still initialized, and a non-empty error message that
\* get_state and get_error report.  Violated: an exception whose str() is
\* empty leaves _error_state = '' (get_state then reports initialized_stopped),
\* and an exception of a folder source's reconnect is swallowed inside the
\* loop.
C12_FaultLeavesErrorState ==
    [][raised' # raised
          => /\ caught_at_boundary'
             /\ ~_is_running'
             /\ ~_inference_enabled'
             /\ _is_initialized'
             /\ _error_state' # None
             /\ Truthy(_error_state')
             /\ GetStateStatus' = "initialized_error"]_vars

\* C13: start() on a pipeline that has already been started is a no-op: a
\* call made after an earlier call has returned with its run thread started,
\* and while that thread is alive, returns without creating a thread and
\* without resetting the counters, the start time or the stop flag.
\* Violated: _is_running is set by the run thread (run, line 514), not by
\* start, so a call made before the thread has run that line passes the check.
C13_StartedIsNoOp ==
    [][\A c \in PCalls :
          (/\ start_pc[c] = "idle" /\ start_pc'[c] # "idle"
           /\ \E b \in PCalls \ {c} :
                 start_result[b] = "started" /\ b \in AliveThreads)
          => /\ start_pc'[c] = "done"
             /\ start_result'[c] = "already_running"]_vars

(***************************************************************************)
(* Claims about update_pipeline, checked under SpecUpd.                    *)
(***************************************************************************)

\* A submitted destination matches an existing one by id or by type and
\* config.
SubmittedMatches(existing_dest, new) ==
    \/ new.id # 0 /\ existing_dest.id = new.id
    \/ existing_dest.type = new.type /\ existing_dest.config = new.config

\* C14: an accepted update_pipeline stores, for every submitted destination
\* that matches an existing destination of the entry, that destination's
\* original id and its current enabled state.  Violated: the stored enabled
\* state is the submitted one whenever the submitted entry carries 'enabled'.
C14_UpdateKeepsIdAndEnabled ==
    [][(update_calls' # update_calls /\ update_result' = "true")
          => \A i \in 1..Len(update_config'.destinations) :
                (\E j \in 1..Len(destinations) :
                    SubmittedMatches(destinations[j],
                                     update_config'.destinations[i]))
                => \E j \in 1..Len(destinations) :
                      /\ SubmittedMatches(destinations[j],
                                          update_config'.destinations[i])
                      /\ destinations'[i].id = destinations[j].id
                      /\ destinations'[i].enabled = destinations[j].enabled]_vars

\* C15: update_pipeline called while the id is in the active map returns
\* failure and leaves the registry entry unchanged.
C15_UpdateRejectedWhileActive ==
    [][(update_calls' # update_calls /\ active_pipelines # None)
          => /\ update_result' = "false"
             /\ UNCHANGED <<destinations, name, modified_date, uuid4_calls,
                            status, inference_enabled,
                            active_pipelines>>]_vars

\* C15 witness: an update submitted with destinations was refused while the
\* id was in the active map.
C15_Witness ==
    /\ active_pipelines # None
    /\ update_calls > 0
    /\ update_result = "false"
    /\ Len(update_config.destinations) > 0
    /\ update_config.destinations # destinations

\* C19: every stop() call that has started returns, whatever the run
\* thread does.
\* Violated: before the bounded join, stop takes _frame_lock without a
\* timeout (pipeline.py:714); a run thread whose draw or thumbnail write
\* never returns holds that lock for ever, and stop never returns.
C19_StopReturns == (stop_pc # "idle") ~> (stop_pc = "idle")

\* C25: once a start() call on an initialized pipeline that was not running
\* has returned, and as long as no stop was requested, nothing was raised
\* and the loop has not ended, is_running() is true.
\* Violated: start() spawns the run thread and returns without setting
\* _is_running; the flag is set by the run thread itself (line 514), so the
\* pipeline reports not running until that thread is scheduled.
C25_StartedIsRunning ==
    \A c \in PCalls :
        (/\ start_result[c] = "started"
         /\ run_thread[c] \in {"spawned", "loop", "store"}
         /\ \A b \in PCalls \ {c} : run_thread[b] = "none"
         /\ ~_stop_requested
         /\ stop_pc = "idle"
         /\ raised = 0)
        => _is_running

(***************************************************************************)
(* Claims about a running pipeline and its failing sends, checked under    *)
(* SpecRun.                                                                *)
(***************************************************************************)
AllTripped == \A d \in Dests : dstate[d].failure_threshold_reached

\* C18: a send that returns false or raises changes nothing of the owning
\* pipeline: its running flag, its error, its inference switch, its stop
\* flag and its run threads are as before; and a pipeline whose
\* destinations have all tripped can still take its next frame.
C18_FailedSendKeepsPipeline ==
    /\ [][sends_failed' # sends_failed
            => UNCHANGED <<_is_running, _error_state, _inference_enabled,
                           _stop_requested, run_thread, _frame_counter,
                           _inference_counter>>]_vars
    /\ [](\A t \in PCalls :
            (/\ AllTripped
             /\ run_thread[t] = "loop"
             /\ ~_stop_requested
             /\ _frame_counter < MaxLoopFrames)
            => ENABLED RunLoopFrame(t))

\* C18 witness: every destination's breaker has tripped on failed sends and
\* the pipeline, still running without error and with inference enabled,
\* has processed a further frame that was delivered nowhere.
C18_Witness ==
    /\ AllTripped
    /\ sends_failed >= NumDests * RunMaxFailures
    /\ raised = 0
    /\ _is_running
    /\ _error_state = None
    /\ _inference_enabled
    /\ run_thread[1] = "loop"
    /\ _frame_counter > RunMaxFailures
    /\ _inference_counter = _frame_counter
    /\ queue = <<>>

(***************************************************************************)
(* Claims about the inference-latency window, checked under SpecLat.       *)
(***************************************************************************)
\* The most recent LatencyWindow latencies measured in this run, in order.
LastWindow ==
    IF Len(measured) <= LatencyWindow THEN measured
    ELSE SubSeq(measured, Len(measured) - LatencyWindow + 1, Len(measured))

\* C24: the buffer never holds more samples than the window; once more
\* than that have been measured it holds exactly the most recent ones, in
\* order; and the average get_metrics reports is the mean of those only.
\* Violated: the run thread appends first (line 597) and trims afterwards
\* (lines 600-601) without a lock, so between the two statements the buffer
\* holds one sample more than the window, and a get_metrics call made then
\* averages that sample too.
C24_WindowHoldsLastSamples ==
    /\ [](/\ Len(_inference_latencies) <= LatencyWindow
          /\ Len(measured) > LatencyWindow
                => _inference_latencies = LastWindow)
    /\ [][metrics_calls' # metrics_calls
             => latency_ms' = CalculateRollingLatency(LastWindow)]_vars


\* C27: the send gate is one atomic section with respect to concurrent
\* publishes and toggles: no publish call reaches the transport's send for a
\* destination that is disabled or paused at the moment it passes the gate.
C27_GateAtomic ==
    [][\A w \in Workers :
          (wpc[w] = "gate" /\ wpc'[w] = "send")
              => (enabled /\ ~frame_limit_reached)]_vars


\* C28: when the transport's send fails, the last-send timestamp is rolled
\* back, so that the attempt that follows the failed call at once is not
\* refused by the rate limit, and the failed send adds exactly one to the
\* failure count: none while the send and the rollback run, one when the call
\* returns.
C28_FailedSendRollsBack ==
    [][\A w \in Workers :
          /\ (is_configured /\ wpc[w] = "recfail" /\ wpc'[w] = "idle")
                => /\ ~RateLimited'
                   /\ failure_count' = failure_count + 1
                   /\ last_return' = "failed"
          /\ (wpc[w] \in {"send", "rollback"} /\ wpc'[w] # "recok")
                => failure_count' = failure_count]_vars

\* A send failed and, with no time passed since the destination was built, the
\* next call is already past the gate of a rate limit of MaxRate seconds.
C28_Witness ==
    /\ rate_limit = Some(MaxRate)
    /\ now = StartTime
    /\ last_return = "failed"
    /\ sendFailRun = 1
    /\ \E w \in Workers : wpc[w] = "send"


\* C29: failures recorded concurrently on one destination are all counted:
\* after k recorded failures with no success and no reset between them
\* (k <= max_failures) failure_count is at least k, nothing having been lost,
\* and once k reaches max_failures the breaker has tripped.
C29_NoFailureLost ==
    /\ sendFailRun <= failure_count
    /\ (sendFailRun = max_failures) => failure_threshold_reached


\* C30: an update_pipeline call that runs together with start_pipeline calls
\* on the same id either writes the durable entry while the id is not in the
\* active map or is rejected: the entry (name, destinations, modified date)
\* of an id that has become active is never modified.
C30_UpdateNeverTouchesActive ==
    [][(<<name, destinations, modified_date>>' # <<name, destinations, modified_date>>)
          => active_pipelines = None]_vars


\* C31: get_metrics only reads the metric state the run loop writes: when a
\* get_metrics call ends, no timestamp that the list holds and that is not
\* older than the call's cutoff has been lost.
C31_MetricsOnlyReads ==
    [][(metrics_pc = "filtered" /\ metrics_pc' = "idle")
          => Len(_frame_timestamps')
                >= Len(NotOlderThan(_frame_timestamps, metrics_cutoff))]_vars


\* C32: while no stop is requested and nothing raises out of the loop, a run
\* thread leaves its processing loop only if the source is not a folder
\* source (a disconnected folder source reconnects and keeps looping), and
\* such an exit leaves _is_running false and records no error.
C32_FolderSourceKeepsLooping ==
    [][\A t \in PCalls :
          (/\ run_thread[t] \in {"loop", "store"}
           /\ run_thread'[t] = "finished"
           /\ ~_stop_requested
           /\ raised' = raised)
              => /\ ~is_folder_source
                 /\ ~_is_running'
                 /\ _error_state' = _error_state]_vars

\* A source that is not a folder was found disconnected: the run thread has
\* finished although no stop was requested and nothing was raised.
C32_Witness ==
    /\ ~is_folder_source
    /\ ~_stop_requested
    /\ raised = 0
    /\ \E t \in PCalls : run_thread[t] = "finished"
    /\ ~_is_running
    /\ _error_state = None


\* C33: the instance installed by a successful start_pipeline call stays in
\* the active map, with status 'running', while it is running and no
\* stop_pipeline call is in progress or has been made: with no
\* start_pipeline call in progress and none that failed, no step of the
\* supervisory worker of an earlier run removes its entry or changes its
\* status.
C33_RunningEntryStays ==
    [][\A s \in Starts :
          (/\ cret[s] = "true"
           /\ active_pipelines = Some(s)
           /\ status = "running"
           /\ is_running[s] /\ is_running'[s]
           /\ stops = 0 /\ stops' = 0
           /\ spc = "idle" /\ spc' = "idle"
           /\ \A r \in Starts : /\ cpc[r] \in {"idle", "done"}
                                /\ cret[r] \in {"none", "true", "already_running"}
           /\ cpc' = cpc)
              => (active_pipelines' = Some(s) /\ status' = "running")]_vars


\* C34: a start_pipeline call that returned failure (reported error or
\* timeout) leaves no processing loop behind: the Pipeline its worker built is
\* never started or running while absent from the active map.
C34_FailedStartLeavesNoLoop ==
    \A s \in Starts :
        (cpc[s] = "done" /\ cret[s] \in {"startup_error", "timeout"})
            => ~(pthread[s] \in {"spawned", "loop"}
                    /\ active_pipelines # Some(s))


\* C35: a destination with max_frames = N never counts more than N frames,
\* also when several pool threads send to it at the same time.
C35_FrameCountWithinLimit ==
    max_frames # None => frame_count <= ValueOf(max_frames)


\* C36: failure_count never exceeds max_failures, whatever the interleaving
\* of concurrent sends, toggles and resets.
C36_FailureCountWithinLimit == failure_count <= max_failures


\* C37: for a destination with rate_limit = R, any two publish calls that
\* passed the gate and returned True passed it at least R apart, in every
\* interleaving of concurrent publishes, a failed send included.
C37_SuccessfulSendsSpaced ==
    \A i, j \in 1..Len(ok_passes) :
        i < j => ok_passes[j] - ok_passes[i] >= ValueOf(rate_limit)
                   \/ ok_passes[i] - ok_passes[j] >= ValueOf(rate_limit)


\* C38: the destination ids within one registry entry are pairwise distinct
\* after every create_pipeline and update_pipeline.
\* Violated: create_pipeline maps every submitted frontend id through the
\* MD5 hash (lines 166-167), so two submitted destinations with the same
\* frontend id are stored with the same id; update_pipeline gives every
\* submitted destination that matches an existing one that destination's id
\* (line 349), so two submitted destinations with the type and config of
\* one existing destination share its id.
C38_DestinationIdsDistinct ==
    \A i, j \in 1..Len(destinations) :
        i # j => destinations[i].id # destinations[j].id


\* C39: whenever the entry's status is 'running', the active map holds a
\* Pipeline instance for the id.
C39_RunningHasInstance ==
    status = "running"
        => (active_pipelines # None /\ ValueOf(active_pipelines) # 0)


\* C40: reset_failure_count applied to a destination that is disabled while
\* its breaker has not tripped (failure_threshold_reached = false) clears
\* the failure counters and leaves it disabled.
\* Violated: reset_failure_count re-enables every configured destination
\* that is disabled (lines 168-169), without looking at the value
\* failure_threshold_reached had when it was called.
C40_ResetKeepsManualDisable ==
    [][(/\ ResetFailureCount
        /\ ~enabled
        /\ ~failure_threshold_reached)
          => (/\ ~enabled'
              /\ failure_count' = 0
              /\ success_count_since_failure' = 0)]_vars

=============================================================================
